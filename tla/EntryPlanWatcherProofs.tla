----------------------- MODULE EntryPlanWatcherProofs -----------------------
(***************************************************************************)
(* What EntryPlanWatcher keeps whatever fails, for every number of plans,  *)
(* workers, passes, claims and crashes and every set of Faults; and, at    *)
(* the end, what it keeps only while MT5 and the database answer in time   *)
(* and passes do not overlap: one order per plan, every live position      *)
(* accounted for, and the abstract specification TradeOnce.                *)
(*                                                                         *)
(* The argument: a statement on a row keeps the row's lock discipline and  *)
(* its terminal status by itself (the row lemmas).  That EXECUTED has a    *)
(* record and a record a real ticket depends on what the flows carry from  *)
(* one await to the next: a worker that records holds the key of a filled  *)
(* order of its own plan, a pass that adopts saw a position that was       *)
(* really open.  KeyInv, WorkerInv and RecInv say so.                      *)
(***************************************************************************)
EXTENDS EntryPlanWatcher, FiniteSetTheorems, TLAPS

RowLock(row) == row.status \in Active => row.key = NoKey

KeepsTerminal(row, new) ==
  /\ row.status = "EXPIRED"  => new.status = "EXPIRED"
  /\ row.status = "EXECUTED" => new.status \in {"EXECUTED", "RECONCILIATION_FAILED"}

\* What a statement that does not mark a plan EXECUTED does to its row.
Lawful(row, new) ==
  /\ new \in RowType
  /\ RowLock(new)
  /\ KeepsTerminal(row, new)
  /\ new.status = "EXECUTED" => row.status = "EXECUTED"

\* A status computed from a quote is never one of the execution statuses.
LEMMA ComputedStatus ==
  ASSUME NEW b \in BOOLEAN, NEW s \in Computed(b)
  PROVE  s \in {"WAITING", "READY", "TRIGGERED", "BLOCKED", "EXPIRED"}
BY DEF Computed, FreshComputed, PastComputed, computeRawEntryStatus

\* Nor is it after the stickiness rule.
LEMMA RefreshedStatus ==
  ASSUME NEW prior, NEW s \in {"WAITING", "READY", "TRIGGERED", "BLOCKED", "EXPIRED"}
  PROVE  refreshPlanStatus(prior, s) \in {"WAITING", "READY", "TRIGGERED", "BLOCKED", "EXPIRED"}
BY DEF refreshPlanStatus

\* The upsert of an analysis or a refresh keeps the row lawful.
LEMMA PersistLawful ==
  ASSUME NEW row \in RowType, RowLock(row),
         NEW s \in {"WAITING", "READY", "TRIGGERED", "BLOCKED", "EXPIRED"}
  PROVE  Lawful(row, persistEntryPlan(row, s))
BY DEF Lawful, RowLock, KeepsTerminal, persistEntryPlan, RowType, Protected, Settled, Active,
       EntryStatus, NoKey, Absent

\* So does the UPDATE that takes the execution lock.
LEMMA ClaimLawful ==
  ASSUME NEW row \in RowType, RowLock(row), isClaimable(row), NEW k \in Keys
  PROVE  Lawful(row, claimPlanForExecution(row, k))
BY DEF Lawful, RowLock, KeepsTerminal, claimPlanForExecution, isClaimable, Claimable, RowType,
       Active, EntryStatus, NoKey, Absent

\* So do blockPlan() and the outer catch.
LEMMA BlockLawful ==
  ASSUME NEW row \in RowType, RowLock(row)
  PROVE  /\ Lawful(row, blockPlan(row))
         /\ Lawful(row, whenExecuting(row, "BLOCKED"))
BY DEF Lawful, RowLock, KeepsTerminal, blockPlan, whenExecuting, Settled, RowType, Active,
       EntryStatus, NoKey, Absent

\* So do both statements that expire a plan.
LEMMA ExpireLawful ==
  ASSUME NEW row \in RowType, RowLock(row), NEW b \in BOOLEAN
  PROVE  /\ Lawful(row, expirePlanRow(row))
         /\ Lawful(row, expireStalePlan(row, b))
BY DEF Lawful, RowLock, KeepsTerminal, expirePlanRow, expireStalePlan, Settled, RowType, Active,
       EntryStatus, NoKey, Absent

\* So do the release and the write-off of the reconciliation.
LEMMA ReconcileLawful ==
  ASSUME NEW row \in RowType, RowLock(row)
  PROVE  /\ Lawful(row, releasePlan(row))
         /\ Lawful(row, markReconciliationFailed(row))
BY DEF Lawful, RowLock, KeepsTerminal, releasePlan, markReconciliationFailed, RowType, Active,
       EntryStatus, NoKey, Absent

\* The one write that marks a plan EXECUTED.
LEMMA ExecuteKeeps ==
  ASSUME NEW row \in RowType, RowLock(row)
  PROVE  LET new == whenExecuting(row, "EXECUTED")
         IN  new \in RowType /\ RowLock(new) /\ KeepsTerminal(row, new)
BY DEF RowLock, KeepsTerminal, whenExecuting, RowType, Active, EntryStatus, NoKey, Absent

\* A row left alone, or only grown older, stays lawful.
LEMMA SameLawful ==
  ASSUME NEW row \in RowType, RowLock(row)
  PROVE  /\ Lawful(row, row)
         /\ row.status = "EXECUTING" => Lawful(row, [row EXCEPT !.aged = TRUE])
BY DEF Lawful, RowLock, KeepsTerminal, RowType, Active, EntryStatus, NoKey, Absent

-----------------------------------------------------------------------------
(* The strengthening.                                                      *)

Unsent == {"claimed", "gates", "limits", "send", "block"}
Held   == Unsent \cup {"await", "record"}
OnRow  == {"picked", "refresh", "claim"}

\* A claim key not handed out yet is unused.
KeyInv == \A k \in Keys : k >= nextKey => order[k] = "none"

\* A flow that holds a claim holds it alone; it sends its one order last
\* and records only an order that was filled.
WorkerOk(v) ==
  /\ v.pc \in Held =>
       /\ v.plan \in Plans /\ v.key \in Keys /\ v.key < nextKey
       /\ owner[v.key] = v.plan
  /\ v.pc \in OnRow => v.plan \in Plans
  /\ v.pc \notin Held => v.key = NoKey
  /\ v.pc \in Unsent => order[v.key] = "none"
  /\ v.pc = "record" => Filled(v.key)

WorkerInv ==
  /\ \A w \in Workers : WorkerOk(worker[w])
  /\ \A v, w \in Workers : worker[v].key = worker[w].key /\ worker[v].key # NoKey => v = w

\* A pass believes only positions that were open, and heals only a plan
\* whose trade is on record.
RecInv ==
  \A r \in Recs :
    /\ \A k \in rec[r].view : Filled(k)
    /\ rec[r].pc \in {"adopt", "heal"} => rec[r].cur \in Plans
    /\ rec[r].pc = "heal" => outcome[rec[r].cur].state # "none"

IInv == TypeOK /\ LockReleased /\ ExecutedHasOutcome /\ RealTickets /\ KeyInv /\ WorkerInv /\ RecInv

\* The strengthened invariant holds of the empty database.
LEMMA InitInv == Init => IInv
<1> SUFFICES ASSUME Init PROVE IInv OBVIOUS
<1> USE DEF Init
<1>1. TypeOK
  BY BoundsAssumption DEF TypeOK, RowType, NoRow, OutcomeType, NoOutcome, OrderState, WorkerType,
     IdleWorker, WorkerPc, RecType, IdleRec, RecPc, Keys, NoKey, Absent
<1>2. LockReleased /\ ExecutedHasOutcome /\ RealTickets
  BY DEF LockReleased, ExecutedHasOutcome, RealTickets, NoRow, NoOutcome, Active, Absent
<1>3. KeyInv /\ WorkerInv /\ RecInv
  BY DEF KeyInv, WorkerInv, WorkerOk, RecInv, IdleWorker, IdleRec, Held, Unsent, OnRow, NoKey
<1> QED BY <1>1, <1>2, <1>3 DEF IInv

-----------------------------------------------------------------------------
(* Which steps write which variable.                                       *)

\* Every action but the listed ones leaves the plan rows alone.
LEMMA PlanFrame ==
  ASSUME [Next]_vars
  PROVE  \/ UNCHANGED plan
         \/ \E p \in Plans : AnalyzePlan(p) \/ GraceElapses(p) \/ \E w \in Workers : ClaimPlan(w, p)
         \/ \E w \in Workers : \/ TickExpire(w) \/ RefreshRow(w) \/ ExpireClaimed(w)
                               \/ BlockClaimed(w) \/ RecordExecution(w) \/ UnexpectedError(w)
         \/ \E r \in Recs : HealPlan(r) \/ ReleasePlan(r) \/ FailPlan(r) \/ ExpireStalePlans(r)
BY DEF Next, vars, Execution, Reconciliation, Deadline, CooldownElapses, PickRow, FetchQuote,
   ClaimFails, PassExpiry, GateRejects, ReadPositions, CheckLimits, SendOrder, ConfirmedAnswer,
   NoAnswer, StuckSelect, StuckRead, StuckLookup, AdoptPosition, OutcomeSelect, OutcomeRead,
   OutcomeCheck, CloseOutcome, FailOutcome, PassFails, Fill, Refuse, ClosePosition, Crash

\* Every action but the listed ones leaves trade_outcomes alone.
LEMMA OutcomeFrame ==
  ASSUME [Next]_vars
  PROVE  \/ UNCHANGED outcome
         \/ \E p \in Plans : CooldownElapses(p)
         \/ \E w \in Workers : RecordExecution(w)
         \/ \E r \in Recs : AdoptPosition(r) \/ CloseOutcome(r) \/ FailOutcome(r)
BY DEF Next, vars, Execution, Reconciliation, AnalyzePlan, GraceElapses, ClaimPlan, TickExpire,
   RefreshRow, ExpireClaimed, BlockClaimed, UnexpectedError, HealPlan, ReleasePlan, FailPlan,
   ExpireStalePlans, Deadline, PickRow, FetchQuote, ClaimFails, PassExpiry, GateRejects,
   ReadPositions, CheckLimits, SendOrder, ConfirmedAnswer, NoAnswer, StuckSelect, StuckRead,
   StuckLookup, OutcomeSelect, OutcomeRead, OutcomeCheck, PassFails, Fill, Refuse, ClosePosition,
   Crash

\* Only a claim, a send and MT5 itself change the orders and their owners.
LEMMA OrderFrame ==
  ASSUME [Next]_vars
  PROVE  \/ UNCHANGED <<order, owner, nextKey>>
         \/ \E p \in Plans, w \in Workers : ClaimPlan(w, p)
         \/ \E w \in Workers : SendOrder(w)
         \/ \E k \in Keys : Fill(k) \/ Refuse(k) \/ ClosePosition(k)
<1>1. ASSUME NEW w \in Workers, Execution(w), ~SendOrder(w) PROVE UNCHANGED <<order, owner, nextKey>>
  BY <1>1
     DEF Execution, TickExpire, FetchQuote, RefreshRow, ClaimFails, PassExpiry, ExpireClaimed, GateRejects,
         ReadPositions, CheckLimits, BlockClaimed, ConfirmedAnswer, NoAnswer, RecordExecution,
         UnexpectedError
<1>2. ASSUME NEW r \in Recs, Reconciliation(r) PROVE UNCHANGED <<order, owner, nextKey>>
  BY <1>2
     DEF Reconciliation, StuckSelect, StuckRead, StuckLookup, AdoptPosition, HealPlan, ReleasePlan,
         OutcomeSelect, OutcomeRead, OutcomeCheck, CloseOutcome, FailOutcome, FailPlan, ExpireStalePlans,
         PassFails
<1>3. ASSUME NEW p \in Plans,
             \/ AnalyzePlan(p) \/ Deadline(p) \/ GraceElapses(p) \/ CooldownElapses(p)
             \/ \E w \in Workers, tick \in BOOLEAN : PickRow(w, p, tick)
      PROVE  UNCHANGED <<order, owner, nextKey>>
  BY <1>3 DEF AnalyzePlan, Deadline, GraceElapses, CooldownElapses, PickRow
<1>4. Crash => UNCHANGED <<order, owner, nextKey>> BY DEF Crash
<1> QED BY <1>1, <1>2, <1>3, <1>4 DEF Next, vars

-----------------------------------------------------------------------------
(* Orders: an order once filled stays filled, and no owner is rewritten.   *)

\* A filled order stays filled, an order not yet claimed is not sent, and
\* the owner of a claim key handed out is never rewritten.
LEMMA OrderStep ==
  ASSUME IInv, [Next]_vars
  PROVE  /\ order' \in [Keys -> OrderState]
         /\ owner' \in [Keys -> Plans \cup {NoPlan}]
         /\ nextKey' \in 1 .. MaxClaims + 1 /\ nextKey <= nextKey'
         /\ KeyInv'
         /\ \A k \in Keys : /\ Filled(k) => Filled(k)'
                            /\ k < nextKey => owner'[k] = owner[k]
                            /\ order[k] = "closed" => order'[k] = "closed"
                            /\ order[k] = "none" /\ order'[k] # "none" =>
                                 \E w \in Workers : SendOrder(w) /\ worker[w].key = k
<1> USE BoundsAssumption DEF IInv, TypeOK, Keys, OrderState, Filled, KeyInv
<1>1. CASE UNCHANGED <<order, owner, nextKey>>
  BY <1>1
<1>2. CASE \E p \in Plans, w \in Workers : ClaimPlan(w, p)
  BY <1>2 DEF ClaimPlan
<1>3. CASE \E w \in Workers : SendOrder(w)
  <2> PICK w \in Workers : SendOrder(w) BY <1>3
  <2>1. worker[w].key \in Keys /\ worker[w].key < nextKey /\ order[worker[w].key] = "none"
    BY DEF WorkerInv, WorkerOk, Held, Unsent, SendOrder
  <2>2. /\ order' = [order EXCEPT ![worker[w].key] = "inflight"]
        /\ UNCHANGED <<owner, nextKey>>
    BY DEF SendOrder
  <2>3. \A k \in Keys : order[k] = "none" /\ order'[k] # "none" => worker[w].key = k
    BY <2>1, <2>2
  <2>4. \A k \in Keys : order[k] = "none" /\ order'[k] # "none" =>
                         \E v \in Workers : SendOrder(v) /\ worker[v].key = k
    BY <2>3
  <2> QED BY <2>1, <2>2, <2>4
<1>4. CASE \E k \in Keys : Fill(k) \/ Refuse(k) \/ ClosePosition(k)
  BY <1>4 DEF Fill, Refuse, ClosePosition
<1> QED BY <1>1, <1>2, <1>3, <1>4, OrderFrame

-----------------------------------------------------------------------------
(* Plans: every written row is lawful, except that a worker or a pass that *)
(* knows of a record may mark the row EXECUTED.                            *)

\* Every step writes lawful rows, or marks EXECUTED a plan on record.
LEMMA PlanStep ==
  ASSUME IInv, [Next]_vars
  PROVE  /\ plan' \in [Plans -> RowType]
         /\ \A p \in Plans :
              /\ RowLock(plan'[p]) /\ KeepsTerminal(plan[p], plan'[p])
              /\ plan'[p].status = "EXECUTED" =>
                   \/ plan[p].status = "EXECUTED"
                   \/ \E w \in Workers : RecordExecution(w) /\ worker[w].plan = p
                   \/ \E r \in Recs : HealPlan(r) /\ rec[r].cur = p
<1> DEFINE Sound(p) ==
      /\ plan'[p] \in RowType
      /\ RowLock(plan'[p]) /\ KeepsTerminal(plan[p], plan'[p])
      /\ plan'[p].status = "EXECUTED" =>
           \/ plan[p].status = "EXECUTED"
           \/ \E w \in Workers : RecordExecution(w) /\ worker[w].plan = p
           \/ \E r \in Recs : HealPlan(r) /\ rec[r].cur = p
<1>1. /\ plan \in [Plans -> RowType] /\ past \in [Plans -> BOOLEAN]
      /\ \A p \in Plans : RowLock(plan[p])
  BY DEF IInv, TypeOK, LockReleased, RowLock
<1>2. ASSUME NEW p \in Plans, Lawful(plan[p], plan'[p]) PROVE Sound(p)
  BY <1>2 DEF Lawful
<1>3. ASSUME NEW p \in Plans, plan'[p] = plan[p] PROVE Sound(p)
  BY <1>1, <1>2, <1>3, SameLawful
<1> HIDE DEF Sound
<1>4. CASE UNCHANGED plan
  <2>1. \A p \in Plans : Sound(p) BY <1>3, <1>4
  <2> QED BY <1>1, <1>4, <2>1 DEF Sound
<1> SUFFICES ASSUME plan' # plan PROVE plan' \in [Plans -> RowType] /\ \A p \in Plans : Sound(p)
  BY <1>4 DEF Sound
\* A step that writes one row by a lawful statement.
<1>5. ASSUME NEW p \in Plans, NEW row, Lawful(plan[p], row), plan' = [plan EXCEPT ![p] = row]
      PROVE  plan' \in [Plans -> RowType] /\ \A q \in Plans : Sound(q)
  <2>1. row \in RowType BY <1>5 DEF Lawful
  <2>2. plan' \in [Plans -> RowType] BY <1>1, <1>5, <2>1
  <2>3. Sound(p) BY <1>1, <1>2, <1>5
  <2>4. \A q \in Plans \ {p} : Sound(q) BY <1>1, <1>3, <1>5
  <2> QED BY <2>2, <2>3, <2>4
<1>6. CASE \E p \in Plans : AnalyzePlan(p)
  <2> PICK p \in Plans : AnalyzePlan(p) BY <1>6
  <2> PICK s \in Computed(past[p]) : plan' = [plan EXCEPT ![p] = persistEntryPlan(@, s)]
    BY DEF AnalyzePlan
  <2>1. Lawful(plan[p], persistEntryPlan(plan[p], s)) BY <1>1, ComputedStatus, PersistLawful
  <2> QED BY <1>1, <1>5, <2>1
<1>7. CASE \E p \in Plans : GraceElapses(p)
  <2> PICK p \in Plans : GraceElapses(p) BY <1>7
  <2>1. plan[p].status = "EXECUTING" /\ plan' = [plan EXCEPT ![p].aged = TRUE]
    BY DEF GraceElapses, Executing
  <2>2. plan' = [plan EXCEPT ![p] = [plan[p] EXCEPT !.aged = TRUE]] BY <2>1
  <2>3. Lawful(plan[p], [plan[p] EXCEPT !.aged = TRUE]) BY <1>1, <2>1, SameLawful
  <2> QED BY <1>5, <2>2, <2>3
<1>8. CASE \E p \in Plans, w \in Workers : ClaimPlan(w, p)
  <2> PICK p \in Plans, w \in Workers : ClaimPlan(w, p) BY <1>8
  <2>1. Lawful(plan[p], claimPlanForExecution(plan[p], nextKey)) BY <1>1, ClaimLawful DEF ClaimPlan
  <2> QED BY <1>5, <2>1 DEF ClaimPlan
\* The plan a worker or a pass is at may be NoPlan only if it writes nothing.
<1>9. ASSUME NEW p, p \notin Plans, NEW row, plan' = [plan EXCEPT ![p] = row]
      PROVE  plan' \in [Plans -> RowType] /\ \A q \in Plans : Sound(q)
  BY <1>1, <1>3, <1>9
<1>10. CASE \E w \in Workers : \/ TickExpire(w) \/ ExpireClaimed(w) \/ BlockClaimed(w)
                               \/ UnexpectedError(w)
  <2> PICK w \in Workers : TickExpire(w) \/ ExpireClaimed(w) \/ BlockClaimed(w) \/ UnexpectedError(w)
    BY <1>10
  <2> DEFINE p == worker[w].plan
  <2>1. CASE p \in Plans
    <3>1. /\ Lawful(plan[p], expirePlanRow(plan[p]))
          /\ Lawful(plan[p], blockPlan(plan[p]))
          /\ Lawful(plan[p], whenExecuting(plan[p], "BLOCKED"))
      BY <1>1, <2>1, ExpireLawful, BlockLawful
    <3>2. PICK row : Lawful(plan[p], row) /\ plan' = [plan EXCEPT ![p] = row]
      BY <3>1 DEF TickExpire, ExpireClaimed, BlockClaimed, UnexpectedError
    <3> QED BY <1>5, <2>1, <3>2
  <2>2. CASE p \notin Plans
    <3>1. \E row : plan' = [plan EXCEPT ![p] = row]
      BY DEF TickExpire, ExpireClaimed, BlockClaimed, UnexpectedError
    <3> QED BY <1>9, <2>2, <3>1
  <2> QED BY <2>1, <2>2
<1>11. CASE \E w \in Workers : RefreshRow(w)
  <2> PICK w \in Workers : RefreshRow(w) BY <1>11
  <2> DEFINE p == worker[w].plan
  <2>1. p \in Plans BY DEF RefreshRow, IInv, WorkerInv, WorkerOk, OnRow
  <2> PICK s \in Computed(past[p]) :
         plan' = [plan EXCEPT ![p] = persistEntryPlan(@, refreshPlanStatus(worker[w].prior, s))]
    BY DEF RefreshRow
  <2>2. s \in {"WAITING", "READY", "TRIGGERED", "BLOCKED", "EXPIRED"} BY <1>1, <2>1, ComputedStatus
  <2>3. Lawful(plan[p], persistEntryPlan(plan[p], refreshPlanStatus(worker[w].prior, s)))
    BY <1>1, <2>1, <2>2, RefreshedStatus, PersistLawful
  <2> QED BY <1>5, <2>1, <2>3
<1>12. CASE \E w \in Workers : RecordExecution(w)
  <2> PICK w \in Workers : RecordExecution(w) BY <1>12
  <2> DEFINE p == worker[w].plan
  <2>1. p \in Plans BY DEF RecordExecution, IInv, WorkerInv, WorkerOk, Held
  <2>2. plan' = [plan EXCEPT ![p] = whenExecuting(plan[p], "EXECUTED")] BY DEF RecordExecution
  <2>3. Sound(p) BY <1>1, <2>1, <2>2, ExecuteKeeps DEF Sound
  <2>4. \A q \in Plans \ {p} : Sound(q) BY <1>1, <1>3, <2>2
  <2>5. plan' \in [Plans -> RowType] BY <1>1, <2>1, <2>2, ExecuteKeeps
  <2> QED BY <2>3, <2>4, <2>5
<1>13. CASE \E r \in Recs : HealPlan(r)
  <2> PICK r \in Recs : HealPlan(r) BY <1>13
  <2> DEFINE p == rec[r].cur
  <2>1. p \in Plans BY DEF HealPlan, IInv, RecInv
  <2>2. plan' = [plan EXCEPT ![p] = whenExecuting(plan[p], "EXECUTED")] BY DEF HealPlan
  <2>3. Sound(p) BY <1>1, <2>1, <2>2, ExecuteKeeps DEF Sound
  <2>4. \A q \in Plans \ {p} : Sound(q) BY <1>1, <1>3, <2>2
  <2>5. plan' \in [Plans -> RowType] BY <1>1, <2>1, <2>2, ExecuteKeeps
  <2> QED BY <2>3, <2>4, <2>5
<1>14. CASE \E r \in Recs : ReleasePlan(r) \/ FailPlan(r)
  <2> PICK r \in Recs : ReleasePlan(r) \/ FailPlan(r) BY <1>14
  <2> DEFINE p == rec[r].cur
  <2>1. CASE p \in Plans
    <3>1. /\ Lawful(plan[p], releasePlan(plan[p]))
          /\ Lawful(plan[p], markReconciliationFailed(plan[p]))
      BY <1>1, <2>1, ReconcileLawful
    <3>2. PICK row : Lawful(plan[p], row) /\ plan' = [plan EXCEPT ![p] = row]
      BY <3>1 DEF ReleasePlan, FailPlan
    <3> QED BY <1>5, <2>1, <3>2
  <2>2. CASE p \notin Plans
    <3>1. \E row : plan' = [plan EXCEPT ![p] = row] BY DEF ReleasePlan, FailPlan
    <3> QED BY <1>9, <2>2, <3>1
  <2> QED BY <2>1, <2>2
<1>15. CASE \E r \in Recs : ExpireStalePlans(r)
  <2>1. plan' = [p \in Plans |-> expireStalePlan(plan[p], past[p])] BY <1>15 DEF ExpireStalePlans
  <2>2. \A p \in Plans : Lawful(plan[p], expireStalePlan(plan[p], past[p])) BY <1>1, ExpireLawful
  <2>3. \A p \in Plans : Sound(p) BY <1>2, <2>1, <2>2
  <2> QED BY <2>1, <2>2, <2>3 DEF Lawful
<1> QED
  BY <1>6, <1>7, <1>8, <1>10, <1>11, <1>12, <1>13, <1>14, <1>15, PlanFrame

-----------------------------------------------------------------------------
(* Outcomes: a record is written once, with the ticket of a filled order.  *)

\* ON CONFLICT DO NOTHING keeps the record that is there.
LEMMA InsertOutcome ==
  ASSUME NEW row \in OutcomeType, NEW k \in Keys \cup {NoKey}
  PROVE  /\ insertOutcome(row, k) \in OutcomeType
         /\ insertOutcome(row, k).state # "none"
         /\ row.state # "none" => insertOutcome(row, k) = row
         /\ row.state = "none" => insertOutcome(row, k).ticket = k
BY DEF insertOutcome, OutcomeType, NoOutcome

\* Closing a record keeps its ticket, and creates none.
LEMMA CloseOutcomeRow ==
  ASSUME NEW row \in OutcomeType, NEW s \in {"closed", "failed"}
  PROVE  /\ closeOutcome(row, s) \in OutcomeType
         /\ closeOutcome(row, s).ticket = row.ticket
         /\ closeOutcome(row, s).state = "none" <=> row.state = "none"
BY DEF closeOutcome, OutcomeType, NoOutcome

\* t is the ticket of a filled order of p, or none where order_send named none.
Real(p, t) ==
  \E k \in Keys : /\ Filled(k) /\ owner[k] = p
                  /\ t = k \/ ("dealonly" \in Faults /\ t = NoKey)

\* A record is never deleted nor its ticket changed, and a new one is of a
\* filled order of its own plan.
LEMMA OutcomeStep ==
  ASSUME IInv, [Next]_vars
  PROVE  /\ outcome' \in [Plans -> OutcomeType]
         /\ \A p \in Plans :
              /\ outcome[p].state # "none" =>
                   outcome'[p].state # "none" /\ outcome'[p].ticket = outcome[p].ticket
              /\ outcome'[p].state # "none" /\ outcome[p].state = "none" => Real(p, outcome'[p].ticket)
         /\ \A w \in Workers : RecordExecution(w) => outcome'[worker[w].plan].state # "none"
         /\ \A r \in Recs : AdoptPosition(r) => outcome'[rec[r].cur].state # "none" /\ rec[r].cur \in Plans
<1>1. /\ outcome \in [Plans -> OutcomeType] /\ owner \in [Keys -> Plans \cup {NoPlan}]
      /\ \A r \in Recs : rec[r].view \subseteq Keys /\ \A k \in rec[r].view : Filled(k)
      /\ \A r \in Recs : rec[r].cur \in Plans \cup {NoPlan}
  BY DEF IInv, TypeOK, RecInv, RecType
<1> DEFINE Sound ==
      /\ outcome' \in [Plans -> OutcomeType]
      /\ \A p \in Plans :
           /\ outcome[p].state # "none" =>
                outcome'[p].state # "none" /\ outcome'[p].ticket = outcome[p].ticket
           /\ outcome'[p].state # "none" /\ outcome[p].state = "none" => Real(p, outcome'[p].ticket)
\* A recorded order is a filled one of that plan.
<1>2. ASSUME NEW p \in Plans, NEW k \in Keys \cup {NoKey}, Real(p, k),
             outcome' = [outcome EXCEPT ![p] = insertOutcome(@, k)]
      PROVE  Sound /\ outcome'[p].state # "none"
  <2>1. outcome'[p] = insertOutcome(outcome[p], k) /\ \A q \in Plans \ {p} : outcome'[q] = outcome[q]
    BY <1>1, <1>2
  <2>2. outcome' \in [Plans -> OutcomeType] BY <1>1, <1>2, InsertOutcome
  <2>3. /\ outcome[p].state # "none" => outcome'[p] = outcome[p]
        /\ outcome[p].state = "none" => outcome'[p].ticket = k
        /\ outcome'[p].state # "none"
    BY <1>1, <2>1, InsertOutcome
  <2> QED BY <1>2, <2>1, <2>2, <2>3
<1>3. ASSUME NEW w \in Workers, RecordExecution(w)
      PROVE  Sound /\ outcome'[worker[w].plan].state # "none"
  <2>1. /\ worker[w].plan \in Plans /\ worker[w].key \in Keys
        /\ Filled(worker[w].key) /\ owner[worker[w].key] = worker[w].plan
    BY <1>3 DEF RecordExecution, IInv, WorkerInv, WorkerOk, Held
  <2>2. PICK t \in AnsweredTickets(worker[w].key) :
               outcome' = [outcome EXCEPT ![worker[w].plan] = insertOutcome(@, t)]
    BY <1>3 DEF RecordExecution
  <2>3. t \in Keys \cup {NoKey} /\ Real(worker[w].plan, t) BY <2>1 DEF AnsweredTickets, Real
  <2> QED BY <1>2, <2>1, <2>2, <2>3
<1>4. ASSUME NEW r \in Recs, AdoptPosition(r)
      PROVE  Sound /\ outcome'[rec[r].cur].state # "none" /\ rec[r].cur \in Plans
  <2>1. PICK k \in rec[r].view : /\ owner[k] = rec[r].cur
                                 /\ outcome' = [outcome EXCEPT ![rec[r].cur] = insertOutcome(@, k)]
    BY <1>4 DEF AdoptPosition
  <2>2. k \in Keys /\ Filled(k) BY <1>1
  <2>3. rec[r].cur \in Plans BY <1>4 DEF AdoptPosition, IInv, RecInv
  <2>4. Real(rec[r].cur, k) BY <2>1, <2>2 DEF Real
  <2> QED BY <1>2, <2>1, <2>2, <2>3, <2>4
\* A step that rewrites one record and keeps its ticket.
<1>5. ASSUME NEW p \in Plans, NEW row \in OutcomeType, row.ticket = outcome[p].ticket,
             row.state = "none" <=> outcome[p].state = "none",
             outcome' = [outcome EXCEPT ![p] = row]
      PROVE  Sound
  <2>1. outcome'[p] = row /\ \A q \in Plans \ {p} : outcome'[q] = outcome[q]
    BY <1>1, <1>5
  <2>2. outcome' \in [Plans -> OutcomeType] BY <1>1, <1>5
  <2> QED BY <1>5, <2>1, <2>2
<1>9. ASSUME outcome' = outcome PROVE Sound
  <2>1. outcome' \in [Plans -> OutcomeType] BY <1>1, <1>9
  <2>2. \A p \in Plans : outcome'[p].state = outcome[p].state /\ outcome'[p].ticket = outcome[p].ticket
    BY <1>9
  <2> QED BY <2>1, <2>2
<1> SUFFICES Sound BY <1>3, <1>4
<1> HIDE DEF Sound
<1>6. CASE \E r \in Recs : CloseOutcome(r) \/ FailOutcome(r)
  <2> PICK r \in Recs : CloseOutcome(r) \/ FailOutcome(r) BY <1>6
  <2>1. PICK s \in {"closed", "failed"} :
           outcome' = [outcome EXCEPT ![rec[r].cur] = closeOutcome(outcome[rec[r].cur], s)]
    BY DEF CloseOutcome, FailOutcome
  <2>2. CASE rec[r].cur \in Plans
    <3>1. outcome[rec[r].cur] \in OutcomeType BY <1>1, <2>2
    <3> DEFINE row == closeOutcome(outcome[rec[r].cur], s)
    <3>2. /\ row \in OutcomeType /\ row.ticket = outcome[rec[r].cur].ticket
          /\ row.state = "none" <=> outcome[rec[r].cur].state = "none"
      BY <3>1, CloseOutcomeRow
    <3> HIDE DEF row
    <3>3. outcome' = [outcome EXCEPT ![rec[r].cur] = row] BY <2>1 DEF row
    <3> QED BY <1>5, <2>2, <3>2, <3>3
  <2>3. CASE rec[r].cur \notin Plans
    <3>1. outcome' = outcome BY <1>1, <2>1, <2>3
    <3> QED BY <1>9, <3>1
  <2> QED BY <2>2, <2>3
<1>7. CASE \E p \in Plans : CooldownElapses(p)
  <2> PICK p \in Plans : CooldownElapses(p) BY <1>7
  <2>1. outcome[p] \in OutcomeType /\ outcome[p] # NoOutcome
    BY <1>1 DEF CooldownElapses, NoOutcome
  <2>2. /\ [outcome[p] EXCEPT !.recent = FALSE] \in OutcomeType
        /\ [outcome[p] EXCEPT !.recent = FALSE].state = outcome[p].state
        /\ [outcome[p] EXCEPT !.recent = FALSE].ticket = outcome[p].ticket
    BY <2>1 DEF OutcomeType
  <2>3. outcome' = [outcome EXCEPT ![p] = [outcome[p] EXCEPT !.recent = FALSE]]
    BY DEF CooldownElapses
  <2> QED BY <1>5, <2>2, <2>3
<1>10. CASE \E w \in Workers : RecordExecution(w) BY <1>3, <1>10
<1>11. CASE \E r \in Recs : AdoptPosition(r) BY <1>4, <1>11
<1> QED BY <1>6, <1>7, <1>9, <1>10, <1>11, OutcomeFrame

-----------------------------------------------------------------------------
(* Workers.                                                                *)

\* Every action but the listed ones leaves the workers alone.
LEMMA WorkerFrame ==
  ASSUME [Next]_vars
  PROVE  \/ UNCHANGED worker
         \/ Crash
         \/ \E w \in Workers, p \in Plans : ClaimPlan(w, p) \/ \E tick \in BOOLEAN : PickRow(w, p, tick)
         \/ \E w \in Workers : \/ FetchQuote(w) \/ RefreshRow(w) \/ PassExpiry(w) \/ GateRejects(w)
                               \/ ReadPositions(w) \/ CheckLimits(w) \/ SendOrder(w)
                               \/ ConfirmedAnswer(w)
                               \/ worker' = [worker EXCEPT ![w] = IdleWorker]
BY DEF Next, vars, Execution, Reconciliation, AnalyzePlan, GraceElapses, TickExpire,
   ExpireClaimed, BlockClaimed, RecordExecution, UnexpectedError, HealPlan,
   ReleasePlan, FailPlan, ExpireStalePlans, Deadline, CooldownElapses,
   ClaimFails, NoAnswer, StuckSelect, StuckRead, StuckLookup, AdoptPosition, OutcomeSelect,
   OutcomeRead, OutcomeCheck, CloseOutcome, FailOutcome, PassFails, Fill, Refuse, ClosePosition

\* The number of positions a worker has counted is a natural number.
LEMMA CountKeys == \A S : S \subseteq Keys => Cardinality(S) \in Nat
<1>1. MaxClaims \in Int BY BoundsAssumption
<1>2. IsFiniteSet(Keys) BY <1>1, FS_Interval DEF Keys
<1> QED BY <1>2, FS_Subset, FS_CardinalityType

\* WorkerOk after a step, of a record that is not itself primed.
WorkerOkNext(v) ==
  /\ v.pc \in Held =>
       /\ v.plan \in Plans /\ v.key \in Keys /\ v.key < nextKey'
       /\ owner'[v.key] = v.plan
  /\ v.pc \in OnRow => v.plan \in Plans
  /\ v.pc \notin Held => v.key = NoKey
  /\ v.pc \in Unsent => order'[v.key] = "none"
  /\ v.pc = "record" => order'[v.key] \in {"open", "closed"}

\* Every step keeps what the workers know of their claims.
LEMMA WorkerStep ==
  ASSUME IInv, [Next]_vars
  PROVE  worker' \in [Workers -> WorkerType] /\ WorkerInv'
<1> DEFINE Goal == worker' \in [Workers -> WorkerType] /\ WorkerInv'
<1>1. /\ worker \in [Workers -> WorkerType] /\ nextKey \in 1 .. MaxClaims + 1
      /\ owner \in [Keys -> Plans \cup {NoPlan}]
      /\ \A w \in Workers : WorkerOk(worker[w])
      /\ \A v, w \in Workers : worker[v].key = worker[w].key /\ worker[v].key # NoKey => v = w
  BY DEF IInv, TypeOK, WorkerInv
\* What a flow holds is not disturbed by a step of another.
<1>2. ASSUME NEW w \in Workers, worker'[w] = worker[w] PROVE WorkerOkNext(worker[w])
  <2>0. ~SendOrder(w) BY <1>1, <1>2 DEF SendOrder, WorkerType
  <2>1. WorkerOk(worker[w]) BY <1>1
  <2>2. worker[w].pc \in Unsent => order'[worker[w].key] = "none"
    <3>1. SUFFICES ASSUME worker[w].pc \in Unsent, order'[worker[w].key] # "none" PROVE FALSE
      OBVIOUS
    <3>2. worker[w].key \in Keys /\ order[worker[w].key] = "none"
      BY <2>1, <3>1 DEF WorkerOk, Held
    <3>3. PICK v \in Workers : SendOrder(v) /\ worker[v].key = worker[w].key
      BY <3>1, <3>2, OrderStep
    <3>4. worker[w].key # NoKey BY <3>2, BoundsAssumption DEF Keys, NoKey
    <3> QED BY <1>1, <2>0, <3>3, <3>4
  <2>3. worker[w].pc \in Held => worker[w].key < nextKey' /\ owner'[worker[w].key] = worker[w].plan
    BY <1>1, <2>1, OrderStep, BoundsAssumption DEF WorkerOk, Keys
  <2>4. worker[w].pc = "record" => order'[worker[w].key] \in {"open", "closed"}
    BY <2>1, OrderStep DEF WorkerOk, Held, Filled
  <2> QED BY <2>1, <2>2, <2>3, <2>4 DEF WorkerOk, WorkerOkNext
\* A step that moves one worker.
<1>3. ASSUME NEW w \in Workers, NEW v \in WorkerType, worker' = [worker EXCEPT ![w] = v],
             WorkerOkNext(v), v.key \in {NoKey, worker[w].key, nextKey}
      PROVE  Goal
  <2>1. worker' \in [Workers -> WorkerType] BY <1>1, <1>3
  <2>2. worker'[w] = v /\ \A u \in Workers \ {w} : worker'[u] = worker[u] BY <1>1, <1>3
  <2>3. \A u \in Workers : WorkerOkNext(worker'[u])
    <3>1. TAKE u \in Workers
    <3>2. CASE u = w BY <1>3, <2>2, <3>2
    <3>3. CASE u # w BY <1>2, <1>3, <2>2, <3>3
    <3> QED BY <3>2, <3>3
  <2>4. \A u \in Workers : worker[u].key # nextKey
    BY <1>1, BoundsAssumption DEF WorkerOk, Keys, NoKey
  <2>5. \A u, x \in Workers : worker'[u].key = worker'[x].key /\ worker'[u].key # NoKey => u = x
    BY <1>1, <1>3, <2>2, <2>4
  <2>6. \A u \in Workers : WorkerOk(worker[u])' BY <2>3 DEF WorkerOkNext, WorkerOk, Filled
  <2> QED BY <2>1, <2>5, <2>6 DEF WorkerInv
<1> HIDE DEF Goal
<1> SUFFICES Goal BY DEF Goal
<1>4. CASE UNCHANGED worker
  <2>1. \A w \in Workers : WorkerOk(worker[w])' BY <1>2, <1>4 DEF WorkerOkNext, WorkerOk, Filled
  <2> QED BY <1>1, <1>4, <2>1 DEF Goal, WorkerInv
<1>5. CASE Crash
  BY <1>5 DEF Goal, Crash, WorkerInv, WorkerOk, IdleWorker, WorkerType, WorkerPc, Held, Unsent, OnRow,
     NoKey, Absent
<1>6. IdleWorker \in WorkerType /\ WorkerOkNext(IdleWorker) /\ IdleWorker.key = NoKey
  BY DEF IdleWorker, WorkerType, WorkerPc, WorkerOkNext, Held, Unsent, OnRow, NoKey, Absent
<1>7. CASE \E w \in Workers : worker' = [worker EXCEPT ![w] = IdleWorker]
  BY <1>3, <1>6, <1>7
<1>8. CASE \E w \in Workers, p \in Plans, tick \in BOOLEAN : PickRow(w, p, tick)
  <2> PICK w \in Workers, p \in Plans, tick \in BOOLEAN : PickRow(w, p, tick) BY <1>8
  <2> DEFINE v == [IdleWorker EXCEPT !.pc = "picked", !.plan = p,
                                     !.prior = plan[p].status, !.tick = tick]
  <2>1. worker' = [worker EXCEPT ![w] = v] BY DEF PickRow
  <2>2. plan[p].status \in EntryStatus \cup {Absent} BY DEF IInv, TypeOK, RowType
  <2>3. v \in WorkerType /\ WorkerOkNext(v) /\ v.key = NoKey
    BY <2>2 DEF IdleWorker, WorkerType, WorkerPc, WorkerOkNext, Held, Unsent, OnRow, NoKey, Absent
  <2> QED BY <1>3, <2>1, <2>3
<1>9. CASE \E w \in Workers : RefreshRow(w)
  <2> PICK w \in Workers : RefreshRow(w) BY <1>9
  <2> DEFINE v == [IdleWorker EXCEPT !.pc = "claim", !.plan = worker[w].plan]
  <2>1. worker' = [worker EXCEPT ![w] = v] \/ worker' = [worker EXCEPT ![w] = IdleWorker]
    BY DEF RefreshRow
  <2>2. worker[w].plan \in Plans BY <1>1 DEF RefreshRow, WorkerOk, OnRow
  <2>3. v \in WorkerType /\ WorkerOkNext(v) /\ v.key = NoKey
    BY <2>2 DEF IdleWorker, WorkerType, WorkerPc, WorkerOkNext, Held, Unsent, OnRow, NoKey, Absent
  <2> HIDE DEF v
  <2> QED BY <1>3, <1>6, <2>1, <2>3
<1>10. CASE \E w \in Workers, p \in Plans : ClaimPlan(w, p)
  <2> PICK w \in Workers, p \in Plans : ClaimPlan(w, p) BY <1>10
  <2> DEFINE v == [IdleWorker EXCEPT !.pc = "claimed", !.plan = p, !.key = nextKey]
  <2>1. worker' = [worker EXCEPT ![w] = v] BY DEF ClaimPlan
  <2>2. /\ nextKey \in Keys /\ nextKey' = nextKey + 1 /\ owner'[nextKey] = p
        /\ order'[nextKey] = "none"
    BY <1>1 DEF ClaimPlan, IInv, KeyInv, Keys
  <2>3. v \in WorkerType
    BY <2>2 DEF IdleWorker, WorkerType, WorkerPc, NoKey, Absent
  <2>4. WorkerOkNext(v) /\ v.key = nextKey
    BY <2>2, BoundsAssumption DEF IdleWorker, WorkerOkNext, Held, Unsent, OnRow, Keys
  <2> QED BY <1>3, <2>1, <2>3, <2>4
\* A step of a flow under its claim keeps the plan and the key.
<1>11. ASSUME NEW w \in Workers, NEW v \in WorkerType, worker' = [worker EXCEPT ![w] = v],
              worker[w].pc \in Held, v.pc \in Held,
              v.plan = worker[w].plan, v.key = worker[w].key,
              v.pc \in Unsent => worker[w].pc \in Unsent /\ order' = order,
              v.pc = "record" => Filled(worker[w].key)
       PROVE  Goal
  <2>1. WorkerOk(worker[w]) BY <1>1
  <2>2. /\ v.plan \in Plans /\ v.key \in Keys /\ v.key < nextKey'
        /\ owner'[v.key] = v.plan
    BY <1>1, <1>11, <2>1, OrderStep, BoundsAssumption DEF WorkerOk, Keys
  <2>3. v.pc \in Unsent => order'[v.key] = "none" BY <1>11, <2>1 DEF WorkerOk
  <2>4. v.pc = "record" => order'[v.key] \in {"open", "closed"}
    BY <1>11, <2>2, OrderStep DEF Filled
  <2>5. WorkerOkNext(v) BY <1>11, <2>2, <2>3, <2>4 DEF WorkerOkNext, Held, OnRow, Unsent
  <2> QED BY <1>3, <1>11, <2>5
<1>12. CASE \E w \in Workers : FetchQuote(w)
  <2> PICK w \in Workers : FetchQuote(w) BY <1>12
  <2> DEFINE v == [worker[w] EXCEPT !.pc = "refresh"]
  <2>1. worker' = [worker EXCEPT ![w] = v] BY DEF FetchQuote
  <2>2. v \in WorkerType /\ v.key = worker[w].key BY <1>1 DEF WorkerType, WorkerPc
  <2>3. WorkerOkNext(v)
    BY <1>1 DEF FetchQuote, WorkerType, WorkerOk, WorkerOkNext, Held, Unsent, OnRow
  <2> QED BY <1>3, <2>1, <2>2, <2>3
<1>13. CASE \E w \in Workers : PassExpiry(w) \/ GateRejects(w) \/ CheckLimits(w)
  <2> PICK w \in Workers : PassExpiry(w) \/ GateRejects(w) \/ CheckLimits(w) BY <1>13
  <2>1. PICK pc \in Unsent : worker' = [worker EXCEPT ![w].pc = pc]
    BY DEF PassExpiry, GateRejects, CheckLimits, Unsent
  <2> DEFINE v == [worker[w] EXCEPT !.pc = pc]
  <2>2. worker' = [worker EXCEPT ![w] = v] BY <2>1
  <2>3. worker[w].pc \in Unsent /\ order' = order
    BY DEF PassExpiry, GateRejects, CheckLimits, Unsent
  <2>4. v \in WorkerType /\ v.plan = worker[w].plan /\ v.key = worker[w].key /\ v.pc = pc
    BY <1>1, <2>1 DEF WorkerType, WorkerPc, Unsent
  <2> HIDE DEF v
  <2>5. pc \in Held /\ worker[w].pc \in Held /\ pc # "record" BY <2>1, <2>3 DEF Held, Unsent
  <2> QED BY <1>11, <2>2, <2>3, <2>4, <2>5
<1>14. CASE \E w \in Workers : ReadPositions(w)
  <2> PICK w \in Workers : ReadPositions(w) BY <1>14
  <2>1. PICK view \in PositionsOrEmpty, pc \in {"block", "limits"} :
           worker' = [worker EXCEPT ![w].pc = pc, ![w].seen = Cardinality(view)]
    BY DEF ReadPositions
  <2> DEFINE v == [worker[w] EXCEPT !.pc = pc, !.seen = Cardinality(view)]
  <2>2. worker' = [worker EXCEPT ![w] = v] BY <2>1
  <2>3. Cardinality(view) \in Nat BY CountKeys DEF PositionsOrEmpty, OpenKeys
  <2>4. worker[w].pc \in Unsent /\ order' = order
    <3>1. worker[w].pc = "gates" /\ order' = order BY DEF ReadPositions
    <3> QED BY <3>1 DEF Unsent
  <2>5. v \in WorkerType /\ v.plan = worker[w].plan /\ v.key = worker[w].key /\ v.pc = pc
    BY <1>1, <2>1, <2>3 DEF WorkerType, WorkerPc
  <2> HIDE DEF v
  <2>6. pc \in Held /\ worker[w].pc \in Held /\ pc # "record" BY <2>1, <2>4 DEF Held, Unsent
  <2> QED BY <1>11, <2>2, <2>4, <2>5, <2>6
<1>15. CASE \E w \in Workers : SendOrder(w) \/ ConfirmedAnswer(w)
  <2> PICK w \in Workers : SendOrder(w) \/ ConfirmedAnswer(w) BY <1>15
  <2>1. PICK pc \in {"await", "record"} :
           /\ worker' = [worker EXCEPT ![w].pc = pc]
           /\ pc = "record" => Filled(worker[w].key)
    BY DEF SendOrder, ConfirmedAnswer
  <2> DEFINE v == [worker[w] EXCEPT !.pc = pc]
  <2>2. worker' = [worker EXCEPT ![w] = v] BY <2>1
  <2>3. worker[w].pc \in Held BY DEF SendOrder, ConfirmedAnswer, Held, Unsent
  <2>4. v \in WorkerType /\ v.plan = worker[w].plan /\ v.key = worker[w].key /\ v.pc = pc
    BY <1>1, <2>1 DEF WorkerType, WorkerPc
  <2> HIDE DEF v
  <2>5. pc \in Held /\ pc \notin Unsent BY <2>1 DEF Held, Unsent
  <2> QED BY <1>11, <2>1, <2>2, <2>3, <2>4, <2>5
<1> QED
  BY <1>4, <1>5, <1>7, <1>8, <1>9, <1>10, <1>12, <1>13, <1>14, <1>15, WorkerFrame

-----------------------------------------------------------------------------
(* Passes.                                                                 *)

RecOk(v, o, m) ==
  /\ \A k \in v.view : o[k] \in {"open", "closed"}
  /\ v.pc \in {"adopt", "heal"} => v.cur \in Plans
  /\ v.pc = "heal" => m[v.cur].state # "none"

\* RecInv, with what a pass knows as a predicate of its local state.
LEMMA RecInvOk == RecInv <=> \A r \in Recs : RecOk(rec[r], order, outcome)
BY DEF RecInv, RecOk, Filled

\* Only the reconciliation itself and a restart move a pass.
LEMMA RecFrame ==
  ASSUME [Next]_vars
  PROVE  \/ UNCHANGED rec
         \/ Crash
         \/ \E r \in Recs : Reconciliation(r)
BY DEF Next, vars, Execution, AnalyzePlan, GraceElapses, TickExpire, RefreshRow, ClaimPlan,
   ExpireClaimed, BlockClaimed, RecordExecution, UnexpectedError, Deadline, CooldownElapses, PickRow,
   FetchQuote, ClaimFails, PassExpiry, GateRejects, ReadPositions, CheckLimits, SendOrder,
   ConfirmedAnswer, NoAnswer, Fill, Refuse, ClosePosition

\* Every step keeps what the passes know of positions and records.
LEMMA RecStep ==
  ASSUME IInv, [Next]_vars
  PROVE  rec' \in [Recs -> RecType] /\ RecInv'
<1> DEFINE Goal == rec' \in [Recs -> RecType] /\ \A r \in Recs : RecOk(rec'[r], order', outcome')
<1>0. SUFFICES Goal BY DEF RecInv, RecOk, Filled
<1>1. /\ rec \in [Recs -> RecType]
      /\ \A r \in Recs : RecOk(rec[r], order, outcome)
  BY RecInvOk DEF IInv, TypeOK
\* A view stays true to its evidence, and a record is never taken back.
<1>2. ASSUME NEW v \in RecType, RecOk(v, order, outcome) PROVE RecOk(v, order', outcome')
  <2>1. \A k \in v.view : order'[k] \in {"open", "closed"}
    BY <1>2, OrderStep DEF RecOk, RecType, Filled
  <2>2. v.pc = "heal" => outcome'[v.cur].state # "none"
    BY <1>2, OutcomeStep DEF RecOk
  <2> QED BY <1>2, <2>1, <2>2 DEF RecOk
<1>3. ASSUME NEW r \in Recs, NEW v \in RecType, RecOk(v, order', outcome'), rec' = [rec EXCEPT ![r] = v]
      PROVE  Goal
  <2>1. rec' \in [Recs -> RecType] BY <1>1, <1>3
  <2>2. ASSUME NEW q \in Recs PROVE RecOk(rec'[q], order', outcome')
    <3>1. CASE q = r BY <1>1, <1>3, <3>1
    <3>2. CASE q # r
      <4>1. rec'[q] = rec[q] /\ rec[q] \in RecType BY <1>1, <1>3, <3>2
      <4> QED BY <1>1, <1>2, <4>1
    <3> QED BY <3>1, <3>2
  <2> QED BY <2>1, <2>2
\* A step of a pass that keeps what it has seen and heals nothing new.
<1>4. ASSUME NEW r \in Recs, NEW v \in RecType, rec' = [rec EXCEPT ![r] = v],
             v.view \subseteq rec[r].view, v.pc \notin {"adopt", "heal"}
      PROVE  Goal
  <2>1. RecOk(v, order, outcome) BY <1>1, <1>4 DEF RecOk
  <2> QED BY <1>2, <1>3, <1>4, <2>1
<1> HIDE DEF Goal
<1>5. CASE UNCHANGED rec
  <2>1. \A r \in Recs : rec[r] \in RecType /\ RecOk(rec[r], order', outcome') BY <1>1, <1>2
  <2> QED BY <1>1, <1>5, <2>1 DEF Goal
<1>6. CASE Crash
  BY <1>6 DEF Goal, Crash, RecOk, IdleRec, RecType, RecPc
<1>7. \A r \in Recs : rec[r] \in RecType BY <1>1
<1>8. CASE \E r \in Recs : StuckSelect(r) \/ OutcomeSelect(r)
  <2> PICK r \in Recs : StuckSelect(r) \/ OutcomeSelect(r) BY <1>8
  <2>1. PICK todo \in SUBSET Plans, pc \in {"outcomes", "stuckread", "expire", "outread"} :
           rec' = [rec EXCEPT ![r] = [IdleRec EXCEPT !.todo = todo, !.pc = pc]]
    BY DEF StuckSelect, OutcomeSelect
  <2> DEFINE v == [IdleRec EXCEPT !.todo = todo, !.pc = pc]
  <2>2. v \in RecType /\ v.view \subseteq rec[r].view /\ v.pc \notin {"adopt", "heal"}
    BY DEF IdleRec, RecType, RecPc
  <2> QED BY <1>4, <2>1, <2>2
<1>9. ASSUME NEW r \in Recs, NEW view \in {OpenKeys, {}}, NEW pc \in {"stuck", "outrows"},
             rec' = [rec EXCEPT ![r].view = view, ![r].pc = pc]
      PROVE  Goal
  <2> DEFINE v == [rec[r] EXCEPT !.view = view, !.pc = pc]
  <2>1. rec' = [rec EXCEPT ![r] = v] BY <1>9
  <2>2. v \in RecType BY <1>7 DEF RecType, RecPc, OpenKeys
  <2>3. RecOk(v, order, outcome) BY <1>7 DEF RecType, RecOk, OpenKeys
  <2> HIDE DEF v
  <2> QED BY <1>2, <1>3, <2>1, <2>2, <2>3
<1>10. CASE \E r \in Recs : StuckRead(r) \/ OutcomeRead(r)
  <2> PICK r \in Recs : StuckRead(r) \/ OutcomeRead(r) BY <1>10
  <2>1. PositionsOrEmpty \subseteq {OpenKeys, {}} BY DEF PositionsOrEmpty
  <2>2. CASE StuckRead(r)
    <3>1. PICK view \in PositionsOrEmpty : rec' = [rec EXCEPT ![r].view = view, ![r].pc = "stuck"]
      BY <2>2 DEF StuckRead
    <3> QED BY <1>9, <2>1, <3>1
  <2>3. CASE \E view \in {OpenKeys, {}} : rec' = [rec EXCEPT ![r].view = view, ![r].pc = "outrows"]
    BY <1>9, <2>3
  <2>4. CASE rec' = [rec EXCEPT ![r] = [IdleRec EXCEPT !.pc = "expire"]]
    <3> DEFINE v == [IdleRec EXCEPT !.pc = "expire"]
    <3>1. v \in RecType /\ v.view \subseteq rec[r].view /\ v.pc \notin {"adopt", "heal"}
      BY DEF IdleRec, RecType, RecPc
    <3> QED BY <1>4, <2>4, <3>1
  <2>5. OutcomeRead(r) => \/ \E view \in {OpenKeys, {}} :
                               rec' = [rec EXCEPT ![r].view = view, ![r].pc = "outrows"]
                          \/ rec' = [rec EXCEPT ![r] = [IdleRec EXCEPT !.pc = "expire"]]
    BY DEF OutcomeRead
  <2> QED BY <2>2, <2>3, <2>4, <2>5
<1>11. CASE \E r \in Recs : StuckLookup(r)
  <2> PICK r \in Recs : StuckLookup(r) BY <1>11
  <2>1. PICK p \in rec[r].todo, pc \in {"heal", "adopt", "release"} :
           /\ rec' = [rec EXCEPT ![r].cur = p, ![r].todo = @ \ {p}, ![r].pc = pc]
           /\ pc = "heal" => outcome[p].state # "none"
    BY DEF StuckLookup
  <2> DEFINE v == [rec[r] EXCEPT !.cur = p, !.todo = rec[r].todo \ {p}, !.pc = pc]
  <2>2. rec' = [rec EXCEPT ![r] = v] BY <2>1
  <2>3. v \in RecType BY <1>7 DEF RecType, RecPc
  <2>4. RecOk(v, order, outcome) BY <1>1, <1>7, <2>1 DEF RecType, RecOk
  <2> HIDE DEF v
  <2> QED BY <1>2, <1>3, <2>2, <2>3, <2>4
<1>12. CASE \E r \in Recs : AdoptPosition(r)
  <2> PICK r \in Recs : AdoptPosition(r) BY <1>12
  <2> DEFINE v == [rec[r] EXCEPT !.pc = "heal"]
  <2>1. rec' = [rec EXCEPT ![r] = v] BY DEF AdoptPosition
  <2>2. v \in RecType BY <1>7 DEF RecType, RecPc
  <2>3. rec[r].cur \in Plans /\ outcome'[rec[r].cur].state # "none" BY OutcomeStep
  <2>4. RecOk(rec[r], order', outcome')
    BY <1>1, <1>2, <1>7
  <2>5. RecOk(v, order', outcome') BY <1>7, <2>3, <2>4 DEF RecType, RecOk
  <2> HIDE DEF v
  <2> QED BY <1>3, <2>1, <2>2, <2>5
<1>13. CASE \E r \in Recs : HealPlan(r) \/ ReleasePlan(r) \/ CloseOutcome(r) \/ FailPlan(r)
  <2> PICK r \in Recs : HealPlan(r) \/ ReleasePlan(r) \/ CloseOutcome(r) \/ FailPlan(r) BY <1>13
  <2>1. PICK pc \in {"outcomes", "stuck", "expire", "outrows"} :
           rec' = [rec EXCEPT ![r] = [rec[r] EXCEPT !.cur = NoPlan, !.pc = pc]]
    BY DEF HealPlan, ReleasePlan, CloseOutcome, FailPlan, AfterStuck, AfterOutcome
  <2> DEFINE v == [rec[r] EXCEPT !.cur = NoPlan, !.pc = pc]
  <2>2. v \in RecType /\ v.view \subseteq rec[r].view /\ v.pc \notin {"adopt", "heal"}
    BY <1>7 DEF RecType, RecPc
  <2> QED BY <1>4, <2>1, <2>2
<1>14. CASE \E r \in Recs : OutcomeCheck(r)
  <2> PICK r \in Recs : OutcomeCheck(r) BY <1>14
  <2> PICK p \in rec[r].todo :
        \/ \E pc \in {"expire", "outrows"} : rec' = [rec EXCEPT ![r].todo = @ \ {p}, ![r].pc = pc]
        \/ \E pc \in {"close", "fail"} :
             rec' = [rec EXCEPT ![r].todo = @ \ {p}, ![r].cur = p, ![r].pc = pc]
    BY DEF OutcomeCheck
  <2>1. ASSUME NEW pc \in {"expire", "outrows"}, rec' = [rec EXCEPT ![r].todo = @ \ {p}, ![r].pc = pc]
        PROVE  Goal
    <3> DEFINE v == [rec[r] EXCEPT !.todo = @ \ {p}, !.pc = pc]
    <3>1. rec' = [rec EXCEPT ![r] = v] BY <2>1
    <3>2. v \in RecType /\ v.view \subseteq rec[r].view /\ v.pc \notin {"adopt", "heal"}
      BY <1>7 DEF RecType, RecPc
    <3> HIDE DEF v
    <3> QED BY <1>4, <3>1, <3>2
  <2>2. ASSUME NEW pc \in {"close", "fail"},
               rec' = [rec EXCEPT ![r].todo = @ \ {p}, ![r].cur = p, ![r].pc = pc]
        PROVE  Goal
    <3> DEFINE v == [rec[r] EXCEPT !.todo = @ \ {p}, !.cur = p, !.pc = pc]
    <3>1. rec' = [rec EXCEPT ![r] = v] BY <2>2
    <3>2. v \in RecType /\ v.view \subseteq rec[r].view /\ v.pc \notin {"adopt", "heal"}
      BY <1>7 DEF RecType, RecPc
    <3> HIDE DEF v
    <3> QED BY <1>4, <3>1, <3>2
  <2> QED BY <2>1, <2>2
<1>15. CASE \E r \in Recs : FailOutcome(r)
  <2> PICK r \in Recs : FailOutcome(r) BY <1>15
  <2> DEFINE v == [rec[r] EXCEPT !.pc = "failplan"]
  <2>1. rec' = [rec EXCEPT ![r] = v] BY DEF FailOutcome
  <2>2. v \in RecType /\ v.view \subseteq rec[r].view /\ v.pc \notin {"adopt", "heal"}
    BY <1>7 DEF RecType, RecPc
  <2> QED BY <1>4, <2>1, <2>2
<1>16. CASE \E r \in Recs : ExpireStalePlans(r) \/ PassFails(r)
  <2> PICK r \in Recs : ExpireStalePlans(r) \/ PassFails(r) BY <1>16
  <2>1. PICK pc \in {"outcomes", "expire", "idle"} :
           rec' = [rec EXCEPT ![r] = [IdleRec EXCEPT !.pc = pc]]
    <3>1. CASE ExpireStalePlans(r)
      BY <3>1 DEF ExpireStalePlans, IdleRec
    <3>2. CASE PassFails(r)
      BY <1>7, <3>2 DEF PassFails, RecType, RecPc
    <3> QED BY <3>1, <3>2
  <2> DEFINE v == [IdleRec EXCEPT !.pc = pc]
  <2>2. v \in RecType /\ v.view \subseteq rec[r].view /\ v.pc \notin {"adopt", "heal"}
    BY DEF IdleRec, RecType, RecPc
  <2> QED BY <1>4, <2>1, <2>2
<1> QED
  BY <1>5, <1>6, <1>8, <1>10, <1>11, <1>12, <1>13, <1>14, <1>15, <1>16, RecFrame
  DEF Reconciliation

-----------------------------------------------------------------------------
(* The invariant, and what follows from it.                                *)

\* Records stay real, because tickets stay filled and owners fixed.
LEMMA RealTicketsStep ==
  ASSUME IInv, [Next]_vars
  PROVE  RealTickets'
<1> SUFFICES ASSUME NEW p \in Plans, outcome'[p].state # "none"
             PROVE  \E k \in Keys : /\ Filled(k)' /\ owner'[k] = p
                                    /\ outcome'[p].ticket = k \/ ("dealonly" \in Faults /\ outcome'[p].ticket = NoKey)
  BY DEF RealTickets
<1>1. Real(p, outcome'[p].ticket)
  <2>1. CASE outcome[p].state = "none" BY <2>1, OutcomeStep
  <2>2. CASE outcome[p].state # "none"
    <3>1. outcome'[p].ticket = outcome[p].ticket BY <2>2, OutcomeStep
    <3> QED BY <2>2, <3>1 DEF IInv, RealTickets, Real
  <2> QED BY <2>1, <2>2
<1>2. PICK k \in Keys : /\ Filled(k) /\ owner[k] = p
                        /\ outcome'[p].ticket = k \/ ("dealonly" \in Faults /\ outcome'[p].ticket = NoKey)
  BY <1>1 DEF Real
<1>5. order[k] \in {"open", "closed"} /\ owner[k] = p BY <1>2 DEF Filled
<1>6. ~(k >= nextKey) BY <1>5 DEF IInv, KeyInv
<1>3. k < nextKey
  BY <1>6, BoundsAssumption DEF IInv, TypeOK, Keys
<1>4. order'[k] \in {"open", "closed"} /\ owner'[k] = p
  <2>1. Filled(k) BY <1>2
  <2>2. Filled(k)' /\ owner'[k] = owner[k] BY <1>3, <2>1, OrderStep
  <2> QED BY <1>5, <2>2 DEF Filled
<1> QED BY <1>2, <1>4 DEF Filled

\* The actions that move neither the deadlines nor the crash count.
LEMMA ClockFrame ==
  ASSUME [Next]_vars
  PROVE  \/ UNCHANGED <<past, crashes>>
         \/ \E p \in Plans : Deadline(p)
         \/ Crash
<1>1. ASSUME NEW w \in Workers, Execution(w) PROVE UNCHANGED <<past, crashes>>
  BY <1>1
     DEF Execution, TickExpire, FetchQuote, RefreshRow, ClaimFails, PassExpiry, ExpireClaimed, GateRejects,
         ReadPositions, CheckLimits, BlockClaimed, SendOrder, ConfirmedAnswer, NoAnswer, RecordExecution,
         UnexpectedError
<1>2. ASSUME NEW r \in Recs, Reconciliation(r) PROVE UNCHANGED <<past, crashes>>
  BY <1>2
     DEF Reconciliation, StuckSelect, StuckRead, StuckLookup, AdoptPosition, HealPlan, ReleasePlan,
         OutcomeSelect, OutcomeRead, OutcomeCheck, CloseOutcome, FailOutcome, FailPlan, ExpireStalePlans,
         PassFails
<1>3. ASSUME NEW p \in Plans, ~Deadline(p),
             \/ AnalyzePlan(p) \/ Deadline(p) \/ GraceElapses(p) \/ CooldownElapses(p)
             \/ \E w \in Workers : ClaimPlan(w, p) \/ \E tick \in BOOLEAN : PickRow(w, p, tick)
      PROVE  UNCHANGED <<past, crashes>>
  BY <1>3 DEF AnalyzePlan, GraceElapses, CooldownElapses, ClaimPlan, PickRow
<1>4. ASSUME NEW k \in Keys, Fill(k) \/ Refuse(k) \/ ClosePosition(k) PROVE UNCHANGED <<past, crashes>>
  BY <1>4 DEF Fill, Refuse, ClosePosition
<1> QED BY <1>1, <1>2, <1>3, <1>4 DEF Next, vars

\* The strengthened invariant is inductive.
LEMMA InvStep == IInv /\ [Next]_vars => IInv'
<1> SUFFICES ASSUME IInv, [Next]_vars PROVE IInv' OBVIOUS
<1>1. TypeOK'
  <2>1. past' \in [Plans -> BOOLEAN] /\ crashes' \in 0 .. MaxCrashes
    <3>1. past \in [Plans -> BOOLEAN] /\ crashes \in 0 .. MaxCrashes BY DEF IInv, TypeOK
    <3>2. CASE UNCHANGED <<past, crashes>> BY <3>1, <3>2
    <3>3. CASE \E p \in Plans : Deadline(p)
      <4> PICK p \in Plans : Deadline(p) BY <3>3
      <4>1. past' = [past EXCEPT ![p] = TRUE] /\ crashes' = crashes BY DEF Deadline
      <4> QED BY <3>1, <4>1
    <3>4. CASE Crash BY <3>1, <3>4, BoundsAssumption DEF Crash
    <3> QED BY <3>2, <3>3, <3>4, ClockFrame
  <2> QED BY <2>1, PlanStep, OutcomeStep, OrderStep, WorkerStep, RecStep DEF TypeOK
<1>2. LockReleased'
  BY PlanStep DEF LockReleased, RowLock
<1>3. ExecutedHasOutcome'
  <2> SUFFICES ASSUME NEW p \in Plans, plan'[p].status = "EXECUTED"
               PROVE  outcome'[p].state # "none"
    BY DEF ExecutedHasOutcome
  <2>1. CASE plan[p].status = "EXECUTED"
    BY <2>1, OutcomeStep DEF IInv, ExecutedHasOutcome
  <2>2. CASE \E w \in Workers : RecordExecution(w) /\ worker[w].plan = p
    BY <2>2, OutcomeStep
  <2>3. CASE \E r \in Recs : HealPlan(r) /\ rec[r].cur = p
    BY <2>3, OutcomeStep DEF HealPlan, IInv, RecInv
  <2> QED BY <2>1, <2>2, <2>3, PlanStep
<1>4. RealTickets' BY RealTicketsStep
<1>5. KeyInv' BY OrderStep
<1>6. WorkerInv' /\ RecInv' BY WorkerStep, RecStep
<1> QED BY <1>1, <1>2, <1>3, <1>4, <1>5, <1>6 DEF IInv

\* The strengthened invariant holds in every state the pipeline reaches, for
\* every number of plans, workers, passes, claims and crashes and all Faults.
THEOREM Invariance == Spec => []IInv
BY InitInv, InvStep, PTL DEF Spec

\* Type correctness: every variable holds values of its kind.
THEOREM TypeCorrect == Spec => []TypeOK
<1>1. IInv => TypeOK BY DEF IInv
<1> QED BY <1>1, Invariance, PTL

\* A plan the app shows as active is never locked by a stale execution_key,
\* whatever faults occur and however ticks, clicks and passes interleave.
THEOREM ActiveIsUnlocked == Spec => []LockReleased
<1>1. IInv => LockReleased BY DEF IInv
<1> QED BY <1>1, Invariance, PTL

\* A plan shown as EXECUTED always has its trade_outcomes row.
THEOREM ExecutedIsRecorded == Spec => []ExecutedHasOutcome
<1>1. IInv => ExecutedHasOutcome BY DEF IInv
<1> QED BY <1>1, Invariance, PTL

\* Every trade on record is a position MT5 opened for that plan.
THEOREM RecordsAreReal == Spec => []RealTickets
<1>1. IInv => RealTickets BY DEF IInv
<1> QED BY <1>1, Invariance, PTL

\* No step leaves EXPIRED, nor EXECUTED except for RECONCILIATION_FAILED.
THEOREM TerminalIsFinal == Spec => TerminalStays
<1>1. IInv /\ [Next]_vars =>
        [\A p \in Plans :
           /\ plan[p].status = "EXPIRED"  => plan'[p].status = "EXPIRED"
           /\ plan[p].status = "EXECUTED" => plan'[p].status \in {"EXECUTED", "RECONCILIATION_FAILED"}]_vars
  BY PlanStep DEF KeepsTerminal
<1> QED BY <1>1, Invariance, PTL DEF Spec, TerminalStays

-----------------------------------------------------------------------------
(* While a position list that is answered is complete, no position that is *)
(* live under the ticket on record is written off.  The pass selected      *)
(* records before it read the positions, so that a ticket it does not see  *)
(* is of a position that has closed, or names no position; and a closed    *)
(* position has its deal, unless the history cannot be read.               *)

Judging == {"outrows", "close", "fail", "failplan"}

Nameless(t)   == "dealonly" \in Faults /\ t = NoKey
Closed(t, o)  == t \in Keys /\ o[t] = "closed"
Excused(t, o) == Nameless(t) \/ ("history" \in Faults /\ Closed(t, o))

WriteOffInv ==
  /\ NoFalseFailure
  /\ \A r \in Recs :
       /\ rec[r].pc = "fail" =>
            /\ Faults # {}
            /\ rec[r].cur \in Plans => outcome[rec[r].cur].state # "none" /\ Excused(outcome[rec[r].cur].ticket, order)
       /\ rec[r].pc \in Judging \cup {"outread"} => \A p \in rec[r].todo : outcome[p].state # "none"
       /\ rec[r].pc \in Judging => \A p \in rec[r].todo :
            \/ outcome[p].ticket \in rec[r].view
            \/ Nameless(outcome[p].ticket) \/ Closed(outcome[p].ticket, order)

\* The condition behind WrittenOffForAReason is inductive relative to IInv.
LEMMA WriteOffStep ==
  ASSUME "blank" \notin Faults, IInv, WriteOffInv, [Next]_vars
  PROVE  WriteOffInv'
<1>1. /\ rec \in [Recs -> RecType] /\ outcome \in [Plans -> OutcomeType]
      /\ order \in [Keys -> OrderState]
  BY DEF IInv, TypeOK
\* A record keeps its ticket, of a filled order if it names one; closed is final.
<1>2. ASSUME NEW p \in Plans, outcome[p].state # "none"
      PROVE  /\ \/ outcome[p].ticket \in Keys /\ Filled(outcome[p].ticket)
                \/ Nameless(outcome[p].ticket)
             /\ outcome'[p].state # "none" /\ outcome'[p].ticket = outcome[p].ticket
             /\ Closed(outcome[p].ticket, order) => Closed(outcome[p].ticket, order')
             /\ Excused(outcome[p].ticket, order) => Excused(outcome[p].ticket, order')
  <2>1. PICK k \in Keys : Filled(k) /\ (outcome[p].ticket = k \/ Nameless(outcome[p].ticket))
    BY <1>2 DEF IInv, RealTickets, Nameless
  <2>2. Closed(outcome[p].ticket, order) => Closed(outcome[p].ticket, order')
    BY OrderStep DEF Closed, Filled
  <2> QED BY <1>2, <2>1, <2>2, OutcomeStep DEF Excused
<1>3. ASSUME NEW p \in Plans, outcome'[p].state = "failed"
      PROVE  Excused(outcome'[p].ticket, order')
  <2>1. ASSUME outcome[p].state = "failed" PROVE Excused(outcome'[p].ticket, order')
    <3>1. Excused(outcome[p].ticket, order)
      BY <2>1 DEF WriteOffInv, NoFalseFailure, Excused, Nameless, Closed
    <3> QED BY <1>2, <2>1, <3>1
  <2> SUFFICES ASSUME outcome[p].state # "failed" PROVE Excused(outcome'[p].ticket, order')
    BY <2>1
  <2>2. ASSUME NEW r \in Recs, FailOutcome(r)
        PROVE  Excused(outcome'[p].ticket, order')
    <3>1. p = rec[r].cur /\ rec[r].pc = "fail"
      BY <1>1, <1>3, <2>2 DEF FailOutcome
    <3>2. outcome[p].state # "none" /\ Excused(outcome[p].ticket, order)
      BY <3>1 DEF WriteOffInv
    <3> QED BY <1>2, <3>2
  <2>3. CASE UNCHANGED outcome BY <1>3, <2>3
  <2>4. CASE \E q \in Plans : CooldownElapses(q)
    BY <1>1, <1>3, <2>4 DEF CooldownElapses, OutcomeType, NoOutcome
  <2>5. CASE \E w \in Workers : RecordExecution(w)
    BY <1>1, <1>3, <2>5 DEF RecordExecution, insertOutcome
  <2>6. CASE \E r \in Recs : AdoptPosition(r)
    BY <1>1, <1>3, <2>6 DEF AdoptPosition, insertOutcome
  <2>7. CASE \E r \in Recs : CloseOutcome(r)
    BY <1>1, <1>3, <2>7 DEF CloseOutcome, closeOutcome, OutcomeType, NoOutcome
  <2> QED BY <2>2, <2>3, <2>4, <2>5, <2>6, <2>7, OutcomeFrame
<1> DEFINE Judged(v, o, m) ==
      /\ v.pc = "fail" =>
           /\ Faults # {}
           /\ v.cur \in Plans => m[v.cur].state # "none" /\ Excused(m[v.cur].ticket, o)
      /\ v.pc \in Judging \cup {"outread"} => \A p \in v.todo : m[p].state # "none"
      /\ v.pc \in Judging => \A p \in v.todo :
           m[p].ticket \in v.view \/ Nameless(m[p].ticket) \/ Closed(m[p].ticket, o)
<1>4. ASSUME NEW v \in RecType, Judged(v, order, outcome) PROVE Judged(v, order', outcome')
  <2>1. v.todo \subseteq Plans BY DEF RecType
  <2> QED BY <1>2, <1>4, <2>1
<1>5. \A r \in Recs : rec[r] \in RecType /\ Judged(rec[r], order, outcome)
  BY <1>1 DEF WriteOffInv
<1>6. ASSUME NEW r \in Recs PROVE Judged(rec'[r], order', outcome')
  <2>1. rec' \in [Recs -> RecType] BY RecStep
  <2>2. SUFFICES Judged(rec'[r], order, outcome)
    BY <1>4, <2>1
  <2> HIDE DEF Judged
  <2>3. CASE rec'[r] = rec[r] BY <1>5, <2>3
  <2>4. CASE rec'[r].pc \notin Judging \cup {"outread"} BY <2>4 DEF Judged, Judging
  <2>5. CASE OutcomeSelect(r)
    BY <1>1, <2>5 DEF OutcomeSelect, IdleRec, Judged, Judging
  <2>6. CASE OutcomeRead(r)
    <3>1. CASE rec' = [rec EXCEPT ![r].view = OpenKeys, ![r].pc = "outrows"]
      <4>1. rec'[r].todo = rec[r].todo /\ rec'[r].view = OpenKeys /\ rec'[r].pc = "outrows"
        BY <1>1, <3>1 DEF RecType
      <4>2. \A p \in rec[r].todo : p \in Plans /\ outcome[p].state # "none"
        BY <1>5, <2>6 DEF Judged, Judging, OutcomeRead, RecType
      <4>3. \A p \in rec[r].todo : \/ outcome[p].ticket \in OpenKeys
                                    \/ Nameless(outcome[p].ticket) \/ Closed(outcome[p].ticket, order)
        BY <1>2, <4>2 DEF Filled, OpenKeys, Closed
      <4> QED BY <4>1, <4>2, <4>3 DEF Judged, Judging
    <3>2. CASE rec' = [rec EXCEPT ![r] = [IdleRec EXCEPT !.pc = "expire"]]
      BY <1>1, <2>4, <3>2 DEF IdleRec, Judging
    <3> QED BY <2>6, <3>1, <3>2 DEF OutcomeRead
  <2>7. ASSUME rec[r].pc \in Judging, rec'[r].pc \in {"expire", "outrows", "close", "failplan"},
               rec'[r].todo \subseteq rec[r].todo, rec'[r].view = rec[r].view
        PROVE  Judged(rec'[r], order, outcome)
    BY <1>5, <2>7 DEF Judged, Judging
  <2>8. CASE OutcomeCheck(r)
    <3> DEFINE next(p) == IF rec[r].todo = {p} THEN "expire" ELSE "outrows"
    <3> PICK p \in rec[r].todo :
        \/ rec' = [rec EXCEPT ![r].todo = @ \ {p}, ![r].pc = next(p)]
        \/ /\ outcome[p].ticket \notin rec[r].view
           /\ \E found \in ClosingDealFound(outcome[p].ticket) :
                rec' = [rec EXCEPT ![r].todo = @ \ {p}, ![r].cur = p,
                                   ![r].pc = IF found THEN "close" ELSE "fail"]
      BY <2>8 DEF OutcomeCheck
    <3>0. rec[r].pc = "outrows" /\ rec[r].pc \in Judging BY <2>8 DEF OutcomeCheck, Judging
    <3>1. CASE rec' = [rec EXCEPT ![r].todo = @ \ {p}, ![r].pc = next(p)]
      <4> DEFINE pc == next(p)
      <4>1. pc \in {"expire", "outrows"} OBVIOUS
      <4>2. rec'[r] = [rec[r] EXCEPT !.todo = @ \ {p}, !.pc = pc] BY <1>1, <3>1
      <4> HIDE DEF pc
      <4>3. /\ rec'[r].pc = pc /\ rec'[r].view = rec[r].view
            /\ rec'[r].todo = rec[r].todo \ {p}
        BY <1>1, <4>2 DEF RecType
      <4> QED BY <2>7, <3>0, <4>1, <4>3
    <3>2. CASE outcome[p].ticket \notin rec[r].view
               /\ \E found \in ClosingDealFound(outcome[p].ticket) :
                    rec' = [rec EXCEPT ![r].todo = @ \ {p}, ![r].cur = p,
                                       ![r].pc = IF found THEN "close" ELSE "fail"]
      <4>1. Nameless(outcome[p].ticket) \/ Closed(outcome[p].ticket, order)
        BY <1>5, <3>0, <3>2 DEF Judged, Judging
      <4>2. FALSE \in ClosingDealFound(outcome[p].ticket) => Excused(outcome[p].ticket, order)
        <5>1. CASE Nameless(outcome[p].ticket) BY <5>1 DEF Excused
        <5>2. CASE Closed(outcome[p].ticket, order)
          <6>1. outcome[p].ticket # NoKey /\ order[outcome[p].ticket] = "closed"
            BY <5>2 DEF Closed, Keys, NoKey
          <6> QED BY <5>2, <6>1 DEF ClosingDealFound, Excused
        <5> QED BY <4>1, <5>1, <5>2
      <4>8. ClosingDealFound(outcome[p].ticket) \subseteq {TRUE, FALSE} BY DEF ClosingDealFound
      <4>3. PICK pc \in {"close", "fail"} :
              /\ rec' = [rec EXCEPT ![r].todo = @ \ {p}, ![r].cur = p, ![r].pc = pc]
              /\ pc = "fail" => Excused(outcome[p].ticket, order)
        BY <3>2, <4>2, <4>8
      <4>4. rec'[r] = [rec[r] EXCEPT !.todo = @ \ {p}, !.cur = p, !.pc = pc] BY <1>1, <4>3
      <4>5. rec[r] \in RecType BY <1>1
      <4>6. CASE pc = "close"
        <5>1. /\ rec'[r].pc = "close" /\ rec'[r].view = rec[r].view
              /\ rec'[r].todo = rec[r].todo \ {p}
          BY <4>4, <4>5, <4>6 DEF RecType
        <5> QED BY <2>7, <3>0, <5>1
      <4>7. CASE pc = "fail"
        <5>1. /\ rec'[r].pc = "fail" /\ rec'[r].cur = p /\ rec'[r].view = rec[r].view
              /\ rec'[r].todo = rec[r].todo \ {p}
          BY <4>4, <4>5, <4>7 DEF RecType
        <5>2. outcome[p].state # "none" BY <1>5, <3>0 DEF Judged, Judging
        <5>3. Excused(outcome[p].ticket, order) /\ Faults # {}
          BY <4>3, <4>7 DEF Excused, Nameless
        <5> QED BY <1>5, <3>0, <4>7, <5>1, <5>2, <5>3 DEF Judged, Judging
      <4> QED BY <4>3, <4>6, <4>7
    <3> QED BY <3>1, <3>2
  <2>9. CASE CloseOutcome(r) \/ FailPlan(r)
    <3>1. rec'[r] = [rec[r] EXCEPT !.cur = NoPlan,
                                   !.pc = IF rec[r].todo = {} THEN "expire" ELSE "outrows"]
      BY <1>1, <2>9 DEF CloseOutcome, FailPlan, AfterOutcome
    <3>2. rec[r] \in RecType /\ rec[r].pc \in Judging
      BY <1>1, <2>9 DEF CloseOutcome, FailPlan, Judging
    <3> QED BY <2>7, <3>1, <3>2 DEF RecType
  <2>10. CASE FailOutcome(r)
    <3>1. rec'[r] = [rec[r] EXCEPT !.pc = "failplan"] BY <1>1, <2>10 DEF FailOutcome
    <3>2. rec[r] \in RecType /\ rec[r].pc \in Judging BY <1>1, <2>10 DEF FailOutcome, Judging
    <3> QED BY <2>7, <3>1, <3>2 DEF RecType
  <2>11. CASE StuckSelect(r) \/ StuckRead(r) \/ ExpireStalePlans(r) \/ PassFails(r)
    <3>1. CASE StuckSelect(r) BY <1>1, <3>1 DEF StuckSelect, IdleRec, Judged, Judging
    <3>2. CASE StuckRead(r) BY <1>1, <2>4, <3>2 DEF StuckRead, RecType, Judging
    <3>3. CASE ExpireStalePlans(r) BY <1>1, <2>4, <3>3 DEF ExpireStalePlans, IdleRec, Judging
    <3>4. CASE PassFails(r)
      <4>1. PICK pc \in {"outcomes", "expire", "idle"} :
               rec' = [rec EXCEPT ![r] = [IdleRec EXCEPT !.pc = pc]]
        BY <1>1, <3>4 DEF PassFails, RecType, RecPc
      <4> QED BY <1>1, <2>4, <4>1 DEF IdleRec, Judging
    <3> QED BY <2>11, <3>1, <3>2, <3>3, <3>4
  <2>12. CASE StuckLookup(r) \/ AdoptPosition(r) \/ HealPlan(r) \/ ReleasePlan(r)
    <3>1. PICK pc \in {"heal", "adopt", "release", "outcomes", "stuck"} : rec'[r].pc = pc
      <4>1. rec[r] \in RecType BY <1>1
      <4>2. CASE StuckLookup(r) BY <1>1, <4>1, <4>2 DEF StuckLookup, RecType
      <4>3. CASE AdoptPosition(r) BY <1>1, <4>1, <4>3 DEF AdoptPosition, RecType
      <4>4. CASE HealPlan(r) \/ ReleasePlan(r)
        <5>1. rec'[r] = [rec[r] EXCEPT !.cur = NoPlan,
                                       !.pc = IF rec[r].todo = {} THEN "outcomes" ELSE "stuck"]
          BY <1>1, <4>4 DEF HealPlan, ReleasePlan, AfterStuck
        <5> QED BY <4>1, <5>1 DEF RecType
      <4> QED BY <2>12, <4>2, <4>3, <4>4
    <3> QED BY <2>4, <3>1 DEF Judging
  <2>13. CASE Crash
    BY <2>4, <2>13 DEF Crash, IdleRec, Judging
  <2>14. CASE \E q \in Recs \ {r} : Reconciliation(q)
    <3> PICK q \in Recs \ {r} : Reconciliation(q) BY <2>14
    <3>1. \E v : rec' = [rec EXCEPT ![q] = v]
      BY DEF Reconciliation, StuckSelect, StuckRead, StuckLookup, AdoptPosition, HealPlan,
         ReleasePlan, OutcomeSelect, OutcomeRead, OutcomeCheck, CloseOutcome, FailOutcome, FailPlan,
         ExpireStalePlans, PassFails
    <3> QED BY <1>1, <2>3, <3>1
  <2> QED
    BY <2>3, <2>5, <2>6, <2>8, <2>9, <2>10, <2>11, <2>12, <2>13, <2>14, RecFrame DEF Reconciliation
<1> QED BY <1>3, <1>6 DEF WriteOffInv, NoFalseFailure, Excused, Nameless, Closed

\* As long as an answered position list is complete, a trade is marked
\* RECONCILIATION_FAILED only if it closed and its deal history could not be
\* read, or if order_send had answered without an order ticket: even when passes
\* overlap, reads and statements fail and positions close at any time.
THEOREM WrittenOffForAReason ==
  ASSUME "blank" \notin Faults
  PROVE  Spec => []NoFalseFailure
<1>1. Init => WriteOffInv BY DEF Init, WriteOffInv, NoFalseFailure, NoOutcome, IdleRec, Judging
<1>2. IInv /\ WriteOffInv /\ [Next]_vars => WriteOffInv' BY WriteOffStep
<1>3. WriteOffInv => NoFalseFailure BY DEF WriteOffInv
<1> QED BY <1>1, <1>2, <1>3, Invariance, PTL DEF Spec

\* A live position whose order_send was answered with its order ticket, or
\* that a pass adopted, is never written off: not even while a position list
\* fails, the deal history is out of reach or other trades are on record
\* without a ticket.
LiveKept ==
  \A p \in Plans : outcome[p].ticket \in OpenKeys => outcome[p].state # "failed"

THEOREM LiveNeverWrittenOff ==
  ASSUME "blank" \notin Faults
  PROVE  Spec => []LiveKept
<1>1. NoFalseFailure => LiveKept BY DEF NoFalseFailure, LiveKept, OpenKeys, Keys, NoKey
<1> QED BY <1>1, WrittenOffForAReason, PTL

-----------------------------------------------------------------------------
(* One order per plan, while MT5 and the database answer in time and at    *)
(* most one pass runs at a time.  The lock does it: from the claim on, the *)
(* row keeps the key of the claim (HolderInv), an order MT5 holds or filled*)
(* has its key in its row, which is past claiming (ReachedInv), and a pass *)
(* releases a row only when its order was never sent or was refused.  That *)
(* it knows so is PassInv: the rows it selected are old (aged), no flow has*)
(* their key any more, and the positions it read later are complete.       *)

Calm == Faults = {} /\ \A q, r \in Recs : q = r

\* Then a trade on record has the ticket of a filled order of its plan.
LEMMA CalmTickets ==
  ASSUME Calm, IInv, NEW p \in Plans, outcome[p].state # "none"
  PROVE  /\ outcome[p].ticket \in Keys
         /\ Filled(outcome[p].ticket) /\ owner[outcome[p].ticket] = p
BY DEF Calm, IInv, RealTickets

Bound   == {"EXECUTING", "EXECUTED", "EXPIRED"}   \* past claiming, but for a release
Settling == {"adopt", "heal", "release"}
Waiting == Settling \cup {"stuckread", "stuck"}

Stuck(p) == plan[p].status = "EXPIRED" \/ (Executing(p) /\ plan[p].aged)

HolderInv ==
  \A w \in Workers : worker[w].pc \in Held =>
    /\ plan[worker[w].plan].key = worker[w].key
    /\ plan[worker[w].plan].status \in {"EXECUTING", "EXPIRED"}

LockInv ==
  \A p \in Plans : Executing(p) =>
    /\ plan[p].key \in Keys /\ plan[p].key < nextKey /\ owner[plan[p].key] = p
    /\ plan[p].aged =>
         /\ order[plan[p].key] # "inflight"
         /\ \A w \in Workers : worker[w].key # plan[p].key

ReachedInv ==
  \A k \in Keys : Reached(k) =>
    /\ owner[k] \in Plans
    /\ plan[owner[k]].key = k
    /\ plan[owner[k]].status \in Bound

ClosedInv == \A k \in Keys : order[k] = "closed" => outcome[owner[k]].ticket = k

\* What a pass knows of the row p it has selected.
Seen(v, p) == Executing(p) /\ order[plan[p].key] = "open" => plan[p].key \in v.view

PassOk(v) ==
  /\ v.pc \notin {"fail", "failplan"}
  /\ v.pc \in Waiting => \A p \in v.todo : Stuck(p)
  /\ v.pc \in Waiting \ {"stuckread"} => \A p \in v.todo : Seen(v, p)
  /\ v.pc \in Settling => v.cur \in Plans /\ v.cur \notin v.todo /\ Stuck(v.cur)
  /\ v.pc = "release" /\ Executing(v.cur) => order[plan[v.cur].key] \in {"none", "refused"}

PassInv == \A r \in Recs : PassOk(rec[r])

OnceInv == HolderInv /\ LockInv /\ ReachedInv /\ ClosedInv /\ PassInv

\* The condition holds of the empty database.
LEMMA InitOnce == Init => OnceInv
BY DEF Init, OnceInv, HolderInv, LockInv, ReachedInv, ClosedInv, PassInv, PassOk, IdleWorker, IdleRec,
   Held, Unsent, Waiting, Settling, NoRow, Absent, Executing, Reached

-----------------------------------------------------------------------------
(* What a step may do to a row, to a claim held, to an order.              *)

\* The ways a row moves.
Moves(p) ==
  \/ plan'[p] = plan[p]
  \/ plan[p].status \notin Bound /\ plan'[p].status # "EXECUTING"
  \/ \E w \in Workers : ClaimPlan(w, p)
  \/ GraceElapses(p)
  \/ /\ Executing(p) /\ plan'[p] = [plan[p] EXCEPT !.status = "EXPIRED"]
     /\ \E w \in Workers : (TickExpire(w) \/ ExpireClaimed(w)) /\ worker[w].plan = p
  \/ /\ Executing(p) /\ plan'[p] = [plan[p] EXCEPT !.status = "EXECUTED"]
     /\ \/ \E w \in Workers : RecordExecution(w) /\ worker[w].plan = p
        \/ \E r \in Recs : HealPlan(r) /\ rec[r].cur = p
  \/ Executing(p) /\ \E w \in Workers : BlockClaimed(w) /\ worker[w].plan = p
  \/ Executing(p) /\ \E r \in Recs : ReleasePlan(r) /\ rec[r].cur = p

\* Without faults, every step moves every row in one of these ways.
LEMMA RowMoves ==
  ASSUME Calm, IInv, OnceInv, [Next]_vars, NEW p \in Plans
  PROVE  Moves(p)
<1>1. plan \in [Plans -> RowType] /\ past \in [Plans -> BOOLEAN] BY DEF IInv, TypeOK
<1>2. plan[p] \in RowType BY <1>1
<1> SUFFICES ASSUME plan'[p] # plan[p] PROVE Moves(p) BY DEF Moves
<1>3. CASE \E q \in Plans : AnalyzePlan(q)
  <2> PICK q \in Plans : AnalyzePlan(q) BY <1>3
  <2>1. PICK s \in Computed(past[q]) : plan' = [plan EXCEPT ![q] = persistEntryPlan(@, s)]
    BY DEF AnalyzePlan
  <2>2. s \in {"WAITING", "READY", "TRIGGERED", "BLOCKED", "EXPIRED"} BY <1>1, ComputedStatus
  <2>3. p = q /\ plan'[p] = persistEntryPlan(plan[p], s) BY <1>1, <2>1
  <2> QED BY <1>2, <2>2, <2>3 DEF Moves, persistEntryPlan, Protected, Settled, Bound, RowType
<1>4. CASE \E w \in Workers : RefreshRow(w)
  <2> PICK w \in Workers : RefreshRow(w) BY <1>4
  <2> DEFINE q == worker[w].plan
  <2>0. q \in Plans BY DEF IInv, WorkerInv, WorkerOk, RefreshRow, OnRow
  <2>1. PICK s \in Computed(past[q]) :
          plan' = [plan EXCEPT ![q] = persistEntryPlan(@, refreshPlanStatus(worker[w].prior, s))]
    BY DEF RefreshRow
  <2>2. s \in {"WAITING", "READY", "TRIGGERED", "BLOCKED", "EXPIRED"} BY <1>1, <2>0, ComputedStatus
  <2>3. PICK t \in {"WAITING", "READY", "TRIGGERED", "BLOCKED", "EXPIRED"} :
          plan' = [plan EXCEPT ![q] = persistEntryPlan(@, t)]
    BY <2>1, <2>2, RefreshedStatus
  <2>4. p = q /\ plan'[p] = persistEntryPlan(plan[p], t) BY <1>1, <2>3
  <2> QED BY <1>2, <2>4 DEF Moves, persistEntryPlan, Protected, Settled, Bound, RowType
<1>5. CASE \E q \in Plans : GraceElapses(q)
  BY <1>1, <1>5 DEF GraceElapses, Moves
<1>6. CASE \E q \in Plans, w \in Workers : ClaimPlan(w, q)
  BY <1>1, <1>6 DEF ClaimPlan, Moves
<1>7. CASE \E w \in Workers : TickExpire(w) \/ ExpireClaimed(w)
  <2> PICK w \in Workers : TickExpire(w) \/ ExpireClaimed(w) BY <1>7
  <2>1. plan' = [plan EXCEPT ![worker[w].plan] = expirePlanRow(@)] BY DEF TickExpire, ExpireClaimed
  <2>2. p = worker[w].plan /\ plan'[p] = expirePlanRow(plan[p]) BY <1>1, <2>1
  <2> QED BY <1>2, <2>2 DEF Moves, expirePlanRow, Settled, Bound, RowType, Executing
<1>8. CASE \E w \in Workers : BlockClaimed(w)
  <2> PICK w \in Workers : BlockClaimed(w) BY <1>8
  <2>1. plan' = [plan EXCEPT ![worker[w].plan] = blockPlan(@)] BY DEF BlockClaimed
  <2>2. p = worker[w].plan /\ plan'[p] = blockPlan(plan[p]) BY <1>1, <2>1
  <2> QED BY <1>2, <2>2 DEF Moves, blockPlan, Settled, Bound, RowType, Executing
<1>9. CASE \E w \in Workers : RecordExecution(w)
  <2> PICK w \in Workers : RecordExecution(w) BY <1>9
  <2>1. plan' = [plan EXCEPT ![worker[w].plan] = whenExecuting(@, "EXECUTED")] BY DEF RecordExecution
  <2>2. p = worker[w].plan /\ plan'[p] = whenExecuting(plan[p], "EXECUTED") BY <1>1, <2>1
  <2>3. Executing(p) /\ plan'[p] = [plan[p] EXCEPT !.status = "EXECUTED"]
    BY <2>2 DEF whenExecuting, Executing
  <2> QED BY <2>2, <2>3 DEF Moves
<1>10. CASE \E r \in Recs : HealPlan(r)
  <2> PICK r \in Recs : HealPlan(r) BY <1>10
  <2>1. plan' = [plan EXCEPT ![rec[r].cur] = whenExecuting(@, "EXECUTED")] BY DEF HealPlan
  <2>2. p = rec[r].cur /\ plan'[p] = whenExecuting(plan[p], "EXECUTED") BY <1>1, <2>1
  <2>3. Executing(p) /\ plan'[p] = [plan[p] EXCEPT !.status = "EXECUTED"]
    BY <2>2 DEF whenExecuting, Executing
  <2> QED BY <2>2, <2>3 DEF Moves
<1>11. CASE \E r \in Recs : ReleasePlan(r)
  <2> PICK r \in Recs : ReleasePlan(r) BY <1>11
  <2>1. plan' = [plan EXCEPT ![rec[r].cur] = releasePlan(@)] BY DEF ReleasePlan
  <2>2. p = rec[r].cur /\ plan'[p] = releasePlan(plan[p]) BY <1>1, <2>1
  <2>3. Executing(p) BY <2>2 DEF releasePlan, Executing
  <2> QED BY <2>2, <2>3 DEF Moves
<1>12. CASE \E r \in Recs : ExpireStalePlans(r)
  <2>1. plan'[p] = expireStalePlan(plan[p], past[p]) BY <1>12 DEF ExpireStalePlans
  <2> QED BY <1>2, <2>1 DEF Moves, expireStalePlan, Active, Bound, RowType
<1>13. ~\E w \in Workers : UnexpectedError(w) BY DEF Calm, UnexpectedError
<1>14. ~\E r \in Recs : FailPlan(r) BY DEF OnceInv, PassInv, PassOk, FailPlan
<1> QED
  BY <1>3, <1>4, <1>5, <1>6, <1>7, <1>8, <1>9, <1>10, <1>11, <1>12, <1>13, <1>14, PlanFrame

\* A flow holds after a step the claim it held before, or the one it takes.
LEMMA HeldMoves ==
  ASSUME IInv, [Next]_vars, NEW w \in Workers
  PROVE  \/ worker'[w].key = NoKey /\ worker'[w].pc \notin Held
         \/ /\ worker[w].pc \in Held
            /\ worker'[w].plan = worker[w].plan /\ worker'[w].key = worker[w].key
            /\ ~RecordExecution(w) /\ ~BlockClaimed(w)
         \/ \E p \in Plans : ClaimPlan(w, p) /\ worker'[w].plan = p /\ worker'[w].key = nextKey
<1>1. worker \in [Workers -> WorkerType] /\ \A v \in Workers : WorkerOk(worker[v]) BY DEF IInv, TypeOK, WorkerInv
<1>2. worker' \in [Workers -> WorkerType] /\ \A v \in Workers : WorkerOk(worker[v])'
  BY WorkerStep DEF WorkerInv
<1>3. worker'[w].pc \notin Held => worker'[w].key = NoKey BY <1>2 DEF WorkerOk
<1> SUFFICES ASSUME worker'[w].pc \in Held
             PROVE  \/ /\ worker[w].pc \in Held
                       /\ worker'[w].plan = worker[w].plan /\ worker'[w].key = worker[w].key
                       /\ ~RecordExecution(w) /\ ~BlockClaimed(w)
                    \/ \E p \in Plans : ClaimPlan(w, p) /\ worker'[w].plan = p /\ worker'[w].key = nextKey
  BY <1>3
<1>4. ~RecordExecution(w) /\ ~BlockClaimed(w)
  BY <1>1 DEF RecordExecution, BlockClaimed, IdleWorker, Held, Unsent
<1>5. CASE worker'[w] = worker[w] BY <1>4, <1>5
<1>6. CASE \E p \in Plans : ClaimPlan(w, p)
  <2> PICK p \in Plans : ClaimPlan(w, p) BY <1>6
  <2>1. worker'[w] = [IdleWorker EXCEPT !.pc = "claimed", !.plan = p, !.key = nextKey]
    BY <1>1 DEF ClaimPlan
  <2> QED BY <2>1 DEF IdleWorker
<1>7. CASE \/ PassExpiry(w) \/ GateRejects(w) \/ CheckLimits(w) \/ SendOrder(w)
           \/ ConfirmedAnswer(w)
  <2>1. PICK pc : worker' = [worker EXCEPT ![w].pc = pc]
    BY <1>7 DEF PassExpiry, GateRejects, CheckLimits, SendOrder, ConfirmedAnswer
  <2>2. worker'[w].plan = worker[w].plan /\ worker'[w].key = worker[w].key BY <1>1, <2>1 DEF WorkerType
  <2>3. worker[w].pc \in Held
    BY <1>7 DEF PassExpiry, GateRejects, CheckLimits, SendOrder, ConfirmedAnswer, Held, Unsent
  <2> QED BY <1>4, <2>2, <2>3
<1>8. CASE ReadPositions(w)
  <2>1. PICK pc, seen : worker' = [worker EXCEPT ![w].pc = pc, ![w].seen = seen]
    BY <1>8 DEF ReadPositions
  <2>2. worker'[w].plan = worker[w].plan /\ worker'[w].key = worker[w].key BY <1>1, <2>1 DEF WorkerType
  <2> QED BY <1>4, <1>8, <2>2 DEF ReadPositions, Held, Unsent
<1>9. CASE \/ FetchQuote(w) \/ worker' = [worker EXCEPT ![w] = IdleWorker] \/ Crash
           \/ \E p \in Plans, tick \in BOOLEAN : PickRow(w, p, tick)
  <2>1. CASE FetchQuote(w) BY <1>1, <2>1 DEF FetchQuote, WorkerType, Held, Unsent
  <2>2. CASE worker' = [worker EXCEPT ![w] = IdleWorker] BY <1>1, <2>2 DEF IdleWorker, Held, Unsent
  <2>3. CASE Crash BY <1>1, <2>3 DEF Crash, IdleWorker, Held, Unsent
  <2>4. CASE \E p \in Plans, tick \in BOOLEAN : PickRow(w, p, tick)
    <3> PICK p \in Plans, tick \in BOOLEAN : PickRow(w, p, tick) BY <2>4
    <3>1. worker'[w].pc = "picked" BY <1>1 DEF PickRow, IdleWorker
    <3> QED BY <3>1 DEF Held, Unsent
  <2> QED BY <1>9, <2>1, <2>2, <2>3, <2>4
<1>10. CASE RefreshRow(w)
  <2>1. PICK pc \in {"claim", "idle"} : worker'[w].pc = pc BY <1>1, <1>10 DEF RefreshRow, IdleWorker
  <2> QED BY <2>1 DEF Held, Unsent
<1>12. ASSUME NEW v \in Workers, v # w,
              \/ FetchQuote(v) \/ RefreshRow(v) \/ PassExpiry(v) \/ GateRejects(v)
              \/ ReadPositions(v) \/ CheckLimits(v) \/ SendOrder(v) \/ ConfirmedAnswer(v)
              \/ worker' = [worker EXCEPT ![v] = IdleWorker]
              \/ \E p \in Plans : ClaimPlan(v, p) \/ \E tick \in BOOLEAN : PickRow(v, p, tick)
       PROVE  worker'[w] = worker[w]
  BY <1>1, <1>12 DEF FetchQuote, RefreshRow, PassExpiry, GateRejects, ReadPositions, CheckLimits,
     SendOrder, ConfirmedAnswer, ClaimPlan, PickRow
<1>13. ASSUME NEW v \in Workers,
              \/ FetchQuote(v) \/ RefreshRow(v) \/ PassExpiry(v) \/ GateRejects(v)
              \/ ReadPositions(v) \/ CheckLimits(v) \/ SendOrder(v) \/ ConfirmedAnswer(v)
              \/ worker' = [worker EXCEPT ![v] = IdleWorker]
       PROVE  v = w \/ worker'[w] = worker[w]
  BY <1>12, <1>13
<1>14. CASE \E v \in Workers, p \in Plans : ClaimPlan(v, p) \/ \E tick \in BOOLEAN : PickRow(v, p, tick)
  <2> PICK v \in Workers, p \in Plans : ClaimPlan(v, p) \/ \E tick \in BOOLEAN : PickRow(v, p, tick) BY <1>14
  <2>1. CASE v = w BY <1>6, <1>9, <2>1
  <2>2. CASE v # w BY <1>5, <1>12, <2>2
  <2> QED BY <2>1, <2>2
<1>15. CASE \E v \in Workers : \/ FetchQuote(v) \/ RefreshRow(v) \/ PassExpiry(v) \/ GateRejects(v)
                              \/ ReadPositions(v) \/ CheckLimits(v) \/ SendOrder(v) \/ ConfirmedAnswer(v)
                              \/ worker' = [worker EXCEPT ![v] = IdleWorker]
  <2> PICK v \in Workers :
         \/ FetchQuote(v) \/ RefreshRow(v) \/ PassExpiry(v) \/ GateRejects(v)
         \/ ReadPositions(v) \/ CheckLimits(v) \/ SendOrder(v) \/ ConfirmedAnswer(v)
         \/ worker' = [worker EXCEPT ![v] = IdleWorker]
    BY <1>15
  <2>1. CASE v = w BY <1>7, <1>8, <1>9, <1>10, <2>1
  <2>2. CASE v # w BY <1>5, <1>13, <2>2
  <2> QED BY <2>1, <2>2
<1> QED BY <1>5, <1>9, <1>14, <1>15, WorkerFrame

\* The ways an order moves.
OrderMoves(k) ==
  \/ order'[k] = order[k]
  \/ order[k] = "none" /\ order'[k] = "inflight" /\ \E w \in Workers : SendOrder(w) /\ worker[w].key = k
  \/ order[k] = "inflight" /\ order'[k] \in {"open", "refused"}
  \/ order[k] = "open" /\ order'[k] = "closed" /\ ClosePosition(k)

\* Every step moves every order in one of these ways.
LEMMA OrderMovesOnly ==
  ASSUME IInv, [Next]_vars, NEW k \in Keys
  PROVE  OrderMoves(k)
<1>1. order \in [Keys -> OrderState] BY DEF IInv, TypeOK
<1>2. CASE UNCHANGED order BY <1>2 DEF OrderMoves
<1>3. ASSUME NEW w \in Workers, SendOrder(w) PROVE OrderMoves(k)
  <2>1. worker[w].key \in Keys /\ order[worker[w].key] = "none"
    BY <1>3 DEF IInv, WorkerInv, WorkerOk, Held, Unsent, SendOrder
  <2>2. order' = [order EXCEPT ![worker[w].key] = "inflight"] BY <1>3 DEF SendOrder
  <2> QED BY <1>1, <1>3, <2>1, <2>2 DEF OrderMoves
<1>4. CASE \E j \in Keys : Fill(j) \/ Refuse(j) \/ ClosePosition(j)
  BY <1>1, <1>4 DEF Fill, Refuse, ClosePosition, OrderMoves
<1>5. CASE \E p \in Plans, w \in Workers : ClaimPlan(w, p) BY <1>2, <1>5 DEF ClaimPlan
<1> QED BY <1>2, <1>3, <1>4, <1>5, OrderFrame

-----------------------------------------------------------------------------
(* The conjuncts, one by one.                                              *)

\* What the pass in hand may write: its row is old, so no flow has its key.
LEMMA SettledRow ==
  ASSUME IInv, OnceInv, NEW r \in Recs, rec[r].pc \in Settling, Executing(rec[r].cur)
  PROVE  /\ rec[r].cur \in Plans /\ plan[rec[r].cur].key \in Keys
         /\ \A w \in Workers : worker[w].key # plan[rec[r].cur].key
BY DEF OnceInv, PassInv, PassOk, LockInv, Stuck, Executing

\* Two flows never hold the same plan.
LEMMA HoldersApart ==
  ASSUME IInv, OnceInv, NEW v \in Workers, NEW w \in Workers,
         worker[v].pc \in Held, worker[w].pc \in Held, worker[v].plan = worker[w].plan
  PROVE  v = w
<1>1. worker[v].key = worker[w].key BY DEF OnceInv, HolderInv
<1>2. worker[v].key # NoKey BY DEF IInv, WorkerInv, WorkerOk, Keys, NoKey
<1> QED BY <1>1, <1>2 DEF IInv, WorkerInv

\* The row of a claim held keeps its key and is not released.
LEMMA HolderStep ==
  ASSUME Calm, IInv, OnceInv, [Next]_vars
  PROVE  HolderInv'
<1>1. plan \in [Plans -> RowType] BY DEF IInv, TypeOK
<1> SUFFICES ASSUME NEW w \in Workers, worker'[w].pc \in Held
             PROVE  /\ plan'[worker'[w].plan].key = worker'[w].key
                    /\ plan'[worker'[w].plan].status \in {"EXECUTING", "EXPIRED"}
  BY DEF HolderInv
<1>2. CASE \E p \in Plans : ClaimPlan(w, p) /\ worker'[w].plan = p /\ worker'[w].key = nextKey
  BY <1>1, <1>2 DEF ClaimPlan, claimPlanForExecution, RowType
<1>3. CASE /\ worker[w].pc \in Held
           /\ worker'[w].plan = worker[w].plan /\ worker'[w].key = worker[w].key
           /\ ~RecordExecution(w) /\ ~BlockClaimed(w)
  <2> DEFINE p == worker[w].plan
  <2>1. /\ p \in Plans /\ plan[p].key = worker[w].key
        /\ plan[p].status \in {"EXECUTING", "EXPIRED"}
    BY <1>3 DEF IInv, WorkerInv, WorkerOk, OnceInv, HolderInv
  <2>2. plan[p] \in RowType BY <1>1, <2>1
  <2>3. Moves(p) BY <2>1, RowMoves
  <2>4. ~\E v \in Workers : ClaimPlan(v, p)
    BY <2>1 DEF ClaimPlan, isClaimable, Claimable
  <2>5. ASSUME NEW v \in Workers, RecordExecution(v) \/ BlockClaimed(v) PROVE worker[v].plan # p
    <3>1. v # w BY <1>3, <2>5
    <3>2. worker[v].pc \in Held BY <2>5 DEF RecordExecution, BlockClaimed, Held, Unsent
    <3> QED BY <1>3, <3>1, <3>2, HoldersApart
  <2>6. ASSUME NEW r \in Recs, HealPlan(r) \/ ReleasePlan(r), Executing(p) PROVE rec[r].cur # p
    <3>1. rec[r].pc \in Settling BY <2>6 DEF HealPlan, ReleasePlan, Settling
    <3> QED BY <2>1, <2>6, <3>1, SettledRow
  <2>7. CASE GraceElapses(p)
    <3>1. plan'[p] = [plan[p] EXCEPT !.aged = TRUE] BY <1>1, <2>1, <2>7 DEF GraceElapses
    <3>2. plan'[p].key = plan[p].key /\ plan'[p].status = plan[p].status BY <2>2, <3>1 DEF RowType
    <3> QED BY <1>3, <2>1, <3>2
  <2>8. CASE plan'[p] = [plan[p] EXCEPT !.status = "EXPIRED"]
    BY <1>3, <2>1, <2>2, <2>8 DEF RowType
  <2>9. CASE plan'[p] = plan[p] BY <1>3, <2>1, <2>9
  <2>10. plan[p].status \in Bound BY <2>1 DEF Bound
  <2> HIDE DEF p
  <2>11. \/ plan'[p] = plan[p] \/ GraceElapses(p)
         \/ plan'[p] = [plan[p] EXCEPT !.status = "EXPIRED"]
    BY <2>3, <2>4, <2>5, <2>6, <2>10 DEF Moves
  <2> QED BY <2>7, <2>8, <2>9, <2>11
<1> QED BY <1>2, <1>3, HeldMoves

\* The key of an EXECUTING row stays what the lock says of it.
LEMMA LockStep ==
  ASSUME Calm, IInv, OnceInv, [Next]_vars
  PROVE  LockInv'
<1>1. plan \in [Plans -> RowType] /\ nextKey \in Nat /\ worker \in [Workers -> WorkerType]
      /\ owner \in [Keys -> Plans \cup {NoPlan}]
  BY BoundsAssumption DEF IInv, TypeOK
<1> SUFFICES ASSUME NEW p \in Plans, plan'[p].status = "EXECUTING"
             PROVE  /\ plan'[p].key \in Keys /\ plan'[p].key < nextKey' /\ owner'[plan'[p].key] = p
                    /\ plan'[p].aged =>
                         /\ order'[plan'[p].key] # "inflight"
                         /\ \A w \in Workers : worker'[w].key # plan'[p].key
  BY DEF LockInv, Executing
<1>2. plan[p] \in RowType BY <1>1
<1>3. CASE \E w \in Workers : ClaimPlan(w, p)
  <2> PICK w \in Workers : ClaimPlan(w, p) BY <1>3
  <2>1. /\ plan' = [plan EXCEPT ![p] = claimPlanForExecution(@, nextKey)]
        /\ owner' = [owner EXCEPT ![nextKey] = p]
        /\ nextKey' = nextKey + 1 /\ nextKey \in Keys
    BY DEF ClaimPlan
  <2>2. plan'[p] = [plan[p] EXCEPT !.status = "EXECUTING", !.key = nextKey, !.aged = FALSE]
    BY <1>1, <2>1 DEF claimPlanForExecution
  <2>3. plan'[p].key = nextKey /\ plan'[p].aged = FALSE BY <1>2, <2>2 DEF RowType
  <2>4. owner'[nextKey] = p BY <1>1, <2>1
  <2> QED BY <1>1, <2>1, <2>3, <2>4
<1>4. CASE Executing(p) /\ (plan'[p] = plan[p] \/ GraceElapses(p))
  <2> DEFINE k == plan[p].key
  <2>1. /\ k \in Keys /\ k < nextKey /\ owner[k] = p
        /\ plan[p].aged => order[k] # "inflight" /\ \A w \in Workers : worker[w].key # k
    BY <1>4 DEF OnceInv, LockInv
  <2>2. plan'[p].key = k
    <3>1. CASE GraceElapses(p)
      <4>1. plan'[p] = [plan[p] EXCEPT !.aged = TRUE] BY <1>1, <3>1 DEF GraceElapses
      <4> QED BY <1>2, <4>1 DEF RowType
    <3> QED BY <1>4, <3>1
  <2>3. owner'[k] = p /\ k < nextKey' BY <1>1, <2>1, OrderStep DEF Keys
  <2>4. ASSUME plan'[p].aged
        PROVE  order'[k] # "inflight" /\ \A w \in Workers : worker'[w].key # k
    <3>1. CASE GraceElapses(p)
      <4>1. /\ \A w \in Workers : worker[w].key # k
            /\ order[k] # "inflight"
            /\ UNCHANGED <<order, worker>>
        BY <2>1, <3>1 DEF GraceElapses, Calm
      <4> QED BY <4>1
    <3>2. CASE plan'[p] = plan[p]
      <4>1. order[k] # "inflight" /\ \A w \in Workers : worker[w].key # k BY <2>1, <2>4, <3>2
      <4>2. OrderMoves(k) BY <2>1, OrderMovesOnly
      <4>3. order'[k] # "inflight" BY <4>1, <4>2 DEF OrderMoves
      <4>4. ASSUME NEW w \in Workers PROVE worker'[w].key # k
        <5>1. k # NoKey BY <2>1 DEF Keys, NoKey
        <5>2. worker'[w].key \in {NoKey, worker[w].key, nextKey} BY HeldMoves
        <5> QED BY <1>1, <2>1, <4>1, <5>1, <5>2 DEF Keys
      <4> QED BY <4>3, <4>4
    <3> QED BY <1>4, <3>1, <3>2
  <2> QED BY <2>1, <2>2, <2>3, <2>4
<1>5. ASSUME NEW r \in Recs, ReleasePlan(r), rec[r].cur = p PROVE FALSE
  <2>1. plan'[p] = releasePlan(plan[p]) BY <1>1, <1>5 DEF ReleasePlan
  <2> QED BY <1>2, <2>1 DEF releasePlan, RowType
<1>6. ASSUME NEW w \in Workers, BlockClaimed(w), worker[w].plan = p PROVE FALSE
  <2>1. plan'[p] = blockPlan(plan[p]) BY <1>1, <1>6 DEF BlockClaimed
  <2> QED BY <1>2, <2>1 DEF blockPlan, Settled, RowType
<1>7. plan'[p] # [plan[p] EXCEPT !.status = "EXPIRED"] /\ plan'[p] # [plan[p] EXCEPT !.status = "EXECUTED"]
  BY <1>2 DEF RowType
<1>8. GraceElapses(p) => Executing(p) BY DEF GraceElapses
<1>9. plan'[p] = plan[p] => Executing(p) BY DEF Executing
<1> QED BY <1>3, <1>4, <1>5, <1>6, <1>7, <1>8, <1>9, RowMoves DEF Moves

\* An order MT5 holds or filled keeps its row, and its row its key.
LEMMA ReachedStep ==
  ASSUME Calm, IInv, OnceInv, [Next]_vars
  PROVE  ReachedInv'
<1>1. plan \in [Plans -> RowType] /\ order \in [Keys -> OrderState] BY DEF IInv, TypeOK
<1> SUFFICES ASSUME NEW k \in Keys, order'[k] \in {"inflight", "open", "closed"}
             PROVE  /\ owner'[k] \in Plans
                    /\ plan'[owner'[k]].key = k
                    /\ plan'[owner'[k]].status \in Bound
  BY DEF ReachedInv, Reached
<1>2. OrderMoves(k) BY OrderMovesOnly
<1>3. CASE \E w \in Workers : SendOrder(w) /\ worker[w].key = k
  <2> PICK w \in Workers : SendOrder(w) /\ worker[w].key = k BY <1>3
  <2>1. worker[w].pc \in Held BY DEF SendOrder, Held, Unsent
  <2>2. owner[k] = worker[w].plan /\ worker[w].plan \in Plans BY <2>1 DEF IInv, WorkerInv, WorkerOk
  <2>3. plan[owner[k]].key = k /\ plan[owner[k]].status \in Bound
    BY <2>1, <2>2 DEF OnceInv, HolderInv, Bound
  <2>4. UNCHANGED <<plan, owner>> BY DEF SendOrder
  <2> QED BY <2>2, <2>3, <2>4
<1>4. CASE Reached(k)
  <2> DEFINE p == owner[k]
  <2>1. p \in Plans /\ plan[p].key = k /\ plan[p].status \in Bound BY <1>4 DEF OnceInv, ReachedInv
  <2>2. k < nextKey BY <1>4, BoundsAssumption DEF IInv, TypeOK, KeyInv, Reached, Keys
  <2>3. owner'[k] = p BY <2>2, OrderStep
  <2>4. plan[p] \in RowType BY <1>1, <2>1
  <2>5. Moves(p) BY <2>1, RowMoves
  <2>6. ~\E w \in Workers : ClaimPlan(w, p)
    BY <2>1 DEF ClaimPlan, isClaimable, Claimable, Bound
  <2>7. ASSUME NEW w \in Workers, BlockClaimed(w), worker[w].plan = p, Executing(p) PROVE FALSE
    <3>1. worker[w].pc \in Unsent /\ worker[w].pc \in Held BY <2>7 DEF BlockClaimed, Unsent, Held
    <3>2. worker[w].key = k BY <2>1, <2>7, <3>1 DEF OnceInv, HolderInv
    <3>3. order[k] = "none" BY <3>1, <3>2 DEF IInv, WorkerInv, WorkerOk
    <3> QED BY <1>4, <3>3 DEF Reached
  <2>8. ASSUME NEW r \in Recs, ReleasePlan(r), rec[r].cur = p, Executing(p) PROVE FALSE
    <3>1. order[k] \in {"none", "refused"} BY <2>1, <2>8 DEF OnceInv, PassInv, PassOk, ReleasePlan
    <3> QED BY <1>4, <3>1 DEF Reached
  <2>9. CASE GraceElapses(p)
    <3>1. plan'[p] = [plan[p] EXCEPT !.aged = TRUE] BY <1>1, <2>1, <2>9 DEF GraceElapses
    <3>2. plan'[p].key = plan[p].key /\ plan'[p].status = plan[p].status BY <2>4, <3>1 DEF RowType
    <3> QED BY <2>1, <2>3, <3>2
  <2>10. ASSUME NEW s \in Bound, plan'[p] = [plan[p] EXCEPT !.status = s]
         PROVE  plan'[p].key = k /\ plan'[p].status \in Bound
    BY <2>1, <2>4, <2>10 DEF RowType
  <2>11. CASE plan'[p] = plan[p] BY <2>1, <2>3, <2>11
  <2> HIDE DEF p
  <2>12. \/ plan'[p] = plan[p] \/ GraceElapses(p)
         \/ plan'[p] = [plan[p] EXCEPT !.status = "EXPIRED"]
         \/ plan'[p] = [plan[p] EXCEPT !.status = "EXECUTED"]
    BY <2>1, <2>5, <2>6, <2>7, <2>8 DEF Moves
  <2>13. "EXPIRED" \in Bound /\ "EXECUTED" \in Bound BY DEF Bound
  <2> QED BY <2>1, <2>3, <2>9, <2>10, <2>11, <2>12, <2>13
<1> QED BY <1>2, <1>3, <1>4 DEF OrderMoves, Reached

\* A position closes once it is on record, and stays on record.
LEMMA ClosedStep ==
  ASSUME Calm, IInv, OnceInv, [Next]_vars
  PROVE  ClosedInv'
<1> SUFFICES ASSUME NEW k \in Keys, order'[k] = "closed" PROVE outcome'[owner'[k]].ticket = k
  BY DEF ClosedInv
<1>1. order[k] \in {"open", "closed"} BY OrderMovesOnly DEF OrderMoves
<1>2. Reached(k) BY <1>1 DEF Reached
<1>3. owner[k] \in Plans BY <1>2 DEF OnceInv, ReachedInv
<1>4. k < nextKey BY <1>2, BoundsAssumption DEF IInv, TypeOK, KeyInv, Reached, Keys
<1>5. owner'[k] = owner[k] BY <1>4, OrderStep
<1>6. outcome[owner[k]].ticket = k
  <2>1. CASE order[k] = "closed" BY <2>1 DEF OnceInv, ClosedInv
  <2>2. CASE ClosePosition(k)
    <3>1. outcome[owner[k]].state # "none" /\ outcome[owner[k]].ticket \in {k, NoKey}
      BY <2>2 DEF ClosePosition, Calm
    <3> QED BY <1>3, <3>1, CalmTickets DEF Keys, NoKey
  <2> QED BY <2>1, <2>2, OrderMovesOnly DEF OrderMoves
<1>7. outcome[owner[k]].state # "none"
  <2>1. outcome[owner[k]] \in OutcomeType BY <1>3 DEF IInv, TypeOK
  <2>2. k # NoKey BY DEF Keys, NoKey
  <2> QED BY <1>6, <2>1, <2>2 DEF OutcomeType, NoOutcome
<1> QED BY <1>3, <1>5, <1>6, <1>7, OutcomeStep

\* A stuck row stays stuck until the pass itself writes it.
LEMMA StuckStays ==
  ASSUME Calm, IInv, OnceInv, [Next]_vars, NEW p \in Plans, Stuck(p),
         \A r \in Recs : (HealPlan(r) \/ ReleasePlan(r)) => rec[r].cur # p
  PROVE  /\ plan'[p].status = "EXPIRED" \/ (plan'[p].status = "EXECUTING" /\ plan'[p].aged)
         /\ plan'[p].status = "EXECUTING" =>
              /\ Executing(p) /\ plan'[p] = plan[p] /\ plan[p].key \in Keys
              /\ order'[plan[p].key] \in {"open", "inflight"} => order'[plan[p].key] = order[plan[p].key]
              /\ order[plan[p].key] \in {"none", "refused"} => order'[plan[p].key] = order[plan[p].key]
<1>1. plan[p] \in RowType BY DEF IInv, TypeOK
<1>2. ~\E w \in Workers : ClaimPlan(w, p)
  BY DEF ClaimPlan, isClaimable, Claimable, Stuck, Executing
<1>3. ~GraceElapses(p) BY DEF GraceElapses, Stuck, Executing
<1>4. ASSUME NEW w \in Workers, RecordExecution(w) \/ BlockClaimed(w), worker[w].plan = p, Executing(p)
      PROVE  FALSE
  <2>1. worker[w].pc \in Held BY <1>4 DEF RecordExecution, BlockClaimed, Held, Unsent
  <2>2. plan[p].key = worker[w].key BY <1>4, <2>1 DEF OnceInv, HolderInv
  <2>3. plan[p].aged BY <1>4 DEF Stuck, Executing
  <2> QED BY <1>4, <2>2, <2>3 DEF OnceInv, LockInv
<1>5. plan'[p] = plan[p] \/ (Executing(p) /\ plan'[p] = [plan[p] EXCEPT !.status = "EXPIRED"])
  <2>1. plan[p].status \in Bound BY DEF Stuck, Executing, Bound
  <2> QED BY <1>2, <1>3, <1>4, <2>1, RowMoves DEF Moves
<1>6. CASE Executing(p) /\ plan'[p] = [plan[p] EXCEPT !.status = "EXPIRED"]
  <2>1. plan'[p].status = "EXPIRED" BY <1>1, <1>6 DEF RowType
  <2> QED BY <2>1
<1>7. CASE plan'[p] = plan[p]
  <2> SUFFICES ASSUME plan'[p].status = "EXECUTING"
               PROVE  /\ Executing(p) /\ plan[p].key \in Keys
                      /\ order'[plan[p].key] \in {"open", "inflight"} => order'[plan[p].key] = order[plan[p].key]
                      /\ order[plan[p].key] \in {"none", "refused"} => order'[plan[p].key] = order[plan[p].key]
    BY <1>7 DEF Stuck, Executing
  <2>1. Executing(p) /\ plan[p].aged BY <1>7 DEF Executing, Stuck
  <2>2. /\ plan[p].key \in Keys /\ order[plan[p].key] # "inflight"
        /\ \A w \in Workers : worker[w].key # plan[p].key
    BY <2>1 DEF OnceInv, LockInv
  <2>3. OrderMoves(plan[p].key) BY <2>2, OrderMovesOnly
  <2> QED BY <2>1, <2>2, <2>3 DEF OrderMoves
<1> QED BY <1>5, <1>6, <1>7

\* What a pass knows stays true while it does not write its rows.
LEMMA KnownStays ==
  ASSUME Calm, IInv, OnceInv, [Next]_vars, NEW v \in RecType, PassOk(v),
         \A r \in Recs : HealPlan(r) \/ ReleasePlan(r) =>
            rec[r].cur \notin v.todo /\ (v.pc \in Settling => rec[r].cur # v.cur)
  PROVE  PassOk(v)'
<1> DEFINE Kept(p) ==
      /\ plan'[p].status = "EXPIRED" \/ (plan'[p].status = "EXECUTING" /\ plan'[p].aged)
      /\ plan'[p].status = "EXECUTING" =>
           /\ Executing(p) /\ plan'[p] = plan[p] /\ plan[p].key \in Keys
           /\ order'[plan[p].key] \in {"open", "inflight"} => order'[plan[p].key] = order[plan[p].key]
           /\ order[plan[p].key] \in {"none", "refused"} => order'[plan[p].key] = order[plan[p].key]
<1>1. ASSUME v.pc \in Waiting, NEW p \in v.todo PROVE Kept(p)
  <2>1. p \in Plans /\ Stuck(p) BY <1>1 DEF RecType, PassOk
  <2>2. \A r \in Recs : HealPlan(r) \/ ReleasePlan(r) => rec[r].cur # p OBVIOUS
  <2> QED BY <2>1, <2>2, StuckStays
<1>2. ASSUME v.pc \in Settling PROVE Kept(v.cur)
  <2>1. v.cur \in Plans /\ Stuck(v.cur) BY <1>2 DEF PassOk
  <2>2. \A r \in Recs : HealPlan(r) \/ ReleasePlan(r) => rec[r].cur # v.cur BY <1>2
  <2> DEFINE p == v.cur
  <2> HIDE DEF p
  <2>3. Kept(p) BY <2>1, <2>2, StuckStays DEF p
  <2> QED BY <2>3 DEF p
<1>3. ASSUME v.pc \in Waiting, NEW p \in v.todo PROVE Stuck(p)'
  BY <1>1, <1>3 DEF Stuck, Executing
<1>4. ASSUME v.pc \in Waiting \ {"stuckread"}, NEW p \in v.todo PROVE Seen(v, p)'
  <2>1. Kept(p) /\ Seen(v, p) BY <1>1, <1>4 DEF PassOk
  <2> QED BY <2>1 DEF Seen, Executing
<1>5. v.pc \in Settling => v.cur \in Plans /\ v.cur \notin v.todo /\ Stuck(v.cur)'
  BY <1>2 DEF PassOk, Stuck, Executing
<1>6. v.pc = "release" /\ Executing(v.cur)' => order'[plan'[v.cur].key] \in {"none", "refused"}
  BY <1>2 DEF PassOk, Executing, Settling
<1>7. v.pc \notin {"fail", "failplan"} BY DEF PassOk
<1> HIDE DEF Kept
<1> QED BY <1>3, <1>4, <1>5, <1>6, <1>7 DEF PassOk

\* A step of the pass that leaves the rows and the orders alone.
LEMMA PassRead ==
  ASSUME Calm, IInv, OnceInv, [Next]_vars, NEW r \in Recs, NEW v \in RecType, PassOk(v),
         UNCHANGED <<plan, order>>
  PROVE  PassOk(v)'
BY DEF PassOk, Seen, Stuck, Executing

\* A pass releases a row only when no order was filled under its key.
LEMMA LookupStep ==
  ASSUME Calm, IInv, OnceInv, [Next]_vars, NEW r \in Recs, StuckLookup(r)
  PROVE  PassOk(rec'[r])
<1>1. rec \in [Recs -> RecType] /\ outcome \in [Plans -> OutcomeType]
      /\ order \in [Keys -> OrderState] /\ plan \in [Plans -> RowType]
  BY DEF IInv, TypeOK
<1>2. PassOk(rec[r]) /\ rec[r] \in RecType /\ rec[r].pc = "stuck" BY <1>1 DEF OnceInv, PassInv, StuckLookup
<1> DEFINE pc(p) == IF outcome[p].state # "none" THEN "heal"
                    ELSE IF \E k \in rec[r].view : owner[k] = p THEN "adopt" ELSE "release"
<1>3. PICK p \in rec[r].todo : rec' = [rec EXCEPT ![r].cur = p, ![r].todo = @ \ {p}, ![r].pc = pc(p)]
  BY DEF StuckLookup
<1> DEFINE s == pc(p)
<1>4. s \in Settling BY DEF Settling
<1>5. ASSUME s = "release" PROVE outcome[p].state = "none" /\ ~\E k \in rec[r].view : owner[k] = p
  BY <1>5
<1>6. rec'[r] = [rec[r] EXCEPT !.cur = p, !.todo = @ \ {p}, !.pc = s] BY <1>1, <1>3
<1> HIDE DEF s
<1>7. /\ rec'[r].cur = p /\ rec'[r].todo = rec[r].todo \ {p} /\ rec'[r].pc = s
      /\ rec'[r].view = rec[r].view
  BY <1>2, <1>6 DEF RecType
<1>8. p \in Plans /\ Stuck(p) /\ Seen(rec[r], p)
  BY <1>2 DEF PassOk, Waiting, RecType
<1>9. ASSUME s = "release", Executing(p) PROVE order[plan[p].key] \in {"none", "refused"}
  <2> DEFINE k == plan[p].key
  <2>1. k \in Keys /\ owner[k] = p /\ order[k] # "inflight"
    BY <1>8, <1>9 DEF OnceInv, LockInv, Stuck, Executing
  <2>2. order[k] # "open" BY <1>5, <1>8, <1>9, <2>1 DEF Seen
  <2>3. order[k] # "closed"
    <3>1. SUFFICES ASSUME order[k] = "closed" PROVE FALSE OBVIOUS
    <3>2. outcome[p].ticket = k BY <2>1, <3>1 DEF OnceInv, ClosedInv
    <3>3. outcome[p] \in OutcomeType /\ k # NoKey BY <1>1, <1>8, <2>1 DEF Keys, NoKey
    <3> QED BY <1>5, <1>9, <3>2, <3>3 DEF OutcomeType, NoOutcome
  <2> QED BY <1>1, <2>1, <2>2, <2>3 DEF OrderState
<1>10. s \notin {"fail", "failplan", "stuckread"} BY <1>4 DEF Settling
<1>11. \A q \in rec'[r].todo : Stuck(q) /\ Seen(rec'[r], q)
  BY <1>2, <1>7 DEF PassOk, Waiting, Seen
<1> QED BY <1>4, <1>7, <1>8, <1>9, <1>10, <1>11 DEF PassOk

\* A step of the pass on a row in hand: the rows it has yet to judge stay.
LEMMA WriteStep ==
  ASSUME Calm, IInv, OnceInv, [Next]_vars, NEW r \in Recs, HealPlan(r) \/ ReleasePlan(r), NEW v, v = rec'[r]
  PROVE  PassOk(v)'
<1>1. rec \in [Recs -> RecType] BY DEF IInv, TypeOK
<1>2. PassOk(rec[r]) /\ rec[r] \in RecType /\ rec[r].pc \in {"heal", "release"}
  BY <1>1 DEF OnceInv, PassInv, HealPlan, ReleasePlan
<1> DEFINE pc == IF rec[r].todo = {} THEN "outcomes" ELSE "stuck"
<1>3. rec'[r] = [rec[r] EXCEPT !.cur = NoPlan, !.pc = pc] BY <1>1 DEF HealPlan, ReleasePlan, AfterStuck
<1>4. pc \in {"outcomes", "stuck"} OBVIOUS
<1> HIDE DEF pc
<1>5. /\ rec'[r].cur = NoPlan /\ rec'[r].todo = rec[r].todo /\ rec'[r].pc = pc
      /\ rec'[r].view = rec[r].view
  BY <1>2, <1>3 DEF RecType
<1>7. v \in RecType BY RecStep
<1>8. PassOk(v)
  <2>1. \A q \in v.todo : Stuck(q) /\ Seen(v, q) BY <1>2, <1>5 DEF PassOk, Waiting, Settling, Seen
  <2> QED BY <1>4, <1>5, <2>1 DEF PassOk, Settling
<1>9. \A q \in Recs : HealPlan(q) \/ ReleasePlan(q) =>
        rec[q].cur \notin v.todo /\ (v.pc \in Settling => rec[q].cur # v.cur)
  <2>1. \A q \in Recs : q = r BY DEF Calm
  <2>2. rec[r].cur \notin v.todo BY <1>2, <1>5 DEF PassOk, Settling
  <2>3. v.pc \notin Settling BY <1>4, <1>5 DEF Settling
  <2> QED BY <2>1, <2>2, <2>3
<1> QED BY <1>7, <1>8, <1>9, KnownStays

\* The other steps of a pass.
LEMMA ReadStep ==
  ASSUME Calm, IInv, OnceInv, [Next]_vars, WriteOffInv', NEW r \in Recs, Reconciliation(r),
         ~HealPlan(r), ~ReleasePlan(r), ~StuckLookup(r)
  PROVE  PassOk(rec'[r]) /\ UNCHANGED order /\ (rec'[r].pc \in Waiting => UNCHANGED plan)
<1>1. rec \in [Recs -> RecType] /\ order \in [Keys -> OrderState] BY DEF IInv, TypeOK
<1>2. PassOk(rec[r]) /\ rec[r] \in RecType BY <1>1 DEF OnceInv, PassInv
<1>3. UNCHANGED order
  BY DEF Reconciliation, StuckSelect, StuckRead, AdoptPosition, OutcomeSelect, OutcomeRead,
     OutcomeCheck, CloseOutcome, FailOutcome, FailPlan, ExpireStalePlans, PassFails
<1>4. rec[r].pc \notin {"fail", "failplan"} BY <1>2 DEF PassOk
<1>5. ~FailOutcome(r) /\ ~FailPlan(r) /\ ~PassFails(r)
  BY <1>4 DEF FailOutcome, FailPlan, PassFails, Calm
<1>6. ASSUME rec'[r].pc \in {"idle", "outcomes", "outread", "outrows", "close", "expire"}
      PROVE  PassOk(rec'[r]) /\ rec'[r].pc \notin Waiting
  BY <1>6 DEF PassOk, Waiting, Settling
<1>7. CASE StuckSelect(r)
  <2> DEFINE stuck == {p \in Plans : Executing(p) /\ plan[p].aged}
  <2> DEFINE pc == IF stuck = {} THEN "outcomes" ELSE "stuckread"
  <2>1. pc \in {"outcomes", "stuckread"} OBVIOUS
  <2>2. rec' = [rec EXCEPT ![r] = [IdleRec EXCEPT !.todo = stuck, !.pc = pc]] /\ UNCHANGED plan
    BY <1>7 DEF StuckSelect
  <2>3. \A p \in stuck : Stuck(p) BY DEF Stuck
  <2> HIDE DEF pc, stuck
  <2>4. rec'[r].todo = stuck /\ rec'[r].pc = pc BY <1>1, <2>2 DEF IdleRec
  <2> QED BY <1>3, <2>1, <2>2, <2>3, <2>4 DEF PassOk, Waiting, Settling
<1>8. CASE StuckRead(r)
  <2>1. rec' = [rec EXCEPT ![r].view = OpenKeys, ![r].pc = "stuck"] /\ UNCHANGED plan
        /\ rec[r].pc = "stuckread"
    BY <1>8 DEF StuckRead, PositionsOrEmpty, Calm
  <2>2. rec'[r].view = OpenKeys /\ rec'[r].pc = "stuck" /\ rec'[r].todo = rec[r].todo
    BY <1>1, <1>2, <2>1 DEF RecType
  <2>3. \A p \in rec[r].todo : Stuck(p) BY <1>2, <2>1 DEF PassOk, Waiting
  <2>4. \A p \in rec[r].todo : Seen(rec'[r], p)
    <3> SUFFICES ASSUME NEW p \in rec[r].todo, Executing(p), order[plan[p].key] = "open"
                 PROVE  plan[p].key \in rec'[r].view
      BY DEF Seen
    <3>1. plan[p].key \in Keys BY <1>2 DEF OnceInv, LockInv, RecType
    <3> QED BY <2>2, <3>1 DEF OpenKeys
  <2> QED BY <1>3, <2>1, <2>2, <2>3, <2>4 DEF PassOk, Settling
<1>9. CASE AdoptPosition(r)
  <2>1. rec' = [rec EXCEPT ![r].pc = "heal"] /\ UNCHANGED plan /\ rec[r].pc = "adopt"
    BY <1>9 DEF AdoptPosition
  <2>2. /\ rec'[r].view = rec[r].view /\ rec'[r].pc = "heal" /\ rec'[r].todo = rec[r].todo
        /\ rec'[r].cur = rec[r].cur
    BY <1>1, <1>2, <2>1 DEF RecType
  <2> QED BY <1>2, <1>3, <2>1, <2>2 DEF PassOk, Waiting, Settling, Seen
<1>10. CASE OutcomeSelect(r)
  <2>1. rec'[r].pc \in {"expire", "outread"} BY <1>1, <1>10 DEF OutcomeSelect, IdleRec
  <2> QED BY <1>3, <1>6, <2>1
<1>11. CASE OutcomeRead(r)
  <2>1. \E view : rec' = [rec EXCEPT ![r].view = view, ![r].pc = "outrows"] BY <1>11 DEF OutcomeRead, Calm
  <2>2. rec'[r].pc = "outrows" BY <1>1, <1>2, <2>1 DEF RecType
  <2> QED BY <1>3, <1>6, <2>2
<1>12. CASE OutcomeCheck(r)
  <2>2. PICK pc \in {"expire", "outrows", "close", "fail"} : \E cur, todo :
          \/ rec' = [rec EXCEPT ![r].todo = todo, ![r].cur = cur, ![r].pc = pc]
          \/ rec' = [rec EXCEPT ![r].todo = todo, ![r].pc = pc]
    BY <1>12 DEF OutcomeCheck
  <2>3. rec'[r].pc = pc
    <3> PICK cur, todo : \/ rec' = [rec EXCEPT ![r].todo = todo, ![r].cur = cur, ![r].pc = pc]
                         \/ rec' = [rec EXCEPT ![r].todo = todo, ![r].pc = pc]
      BY <2>2
    <3>1. \/ rec'[r] = [rec[r] EXCEPT !.todo = todo, !.cur = cur, !.pc = pc]
          \/ rec'[r] = [rec[r] EXCEPT !.todo = todo, !.pc = pc]
      BY <1>1, <2>2
    <3> QED BY <1>2, <3>1 DEF RecType
  <2>4. pc # "fail" BY <2>3 DEF WriteOffInv, Calm
  <2> QED BY <1>3, <1>6, <2>3, <2>4
<1>13. CASE CloseOutcome(r)
  <2>1. rec'[r] = [rec[r] EXCEPT !.cur = NoPlan, !.pc = IF rec[r].todo = {} THEN "expire" ELSE "outrows"]
    BY <1>1, <1>13 DEF CloseOutcome, AfterOutcome
  <2>2. rec'[r].pc \in {"expire", "outrows"} BY <1>2, <2>1 DEF RecType
  <2> QED BY <1>3, <1>6, <2>2
<1>14. CASE ExpireStalePlans(r)
  <2>1. rec'[r].pc = "idle" BY <1>1, <1>14 DEF ExpireStalePlans, IdleRec
  <2> QED BY <1>3, <1>6, <2>1
<1> QED
  BY <1>5, <1>7, <1>8, <1>9, <1>10, <1>11, <1>12, <1>13, <1>14 DEF Reconciliation

\* What the pass knows stays true.
LEMMA PassStep ==
  ASSUME Calm, IInv, OnceInv, [Next]_vars, WriteOffInv'
  PROVE  PassInv'
<1>1. rec \in [Recs -> RecType] BY DEF IInv, TypeOK
<1> SUFFICES ASSUME NEW r \in Recs, NEW v, v = rec'[r] PROVE PassOk(v)'
  BY DEF PassInv, PassOk, Seen, Stuck, Executing
<1>2. v \in RecType BY RecStep
<1>3. \A q \in Recs : q = r BY DEF Calm
<1>4. ASSUME PassOk(v), ~HealPlan(r), ~ReleasePlan(r) PROVE PassOk(v)'
  BY <1>2, <1>3, <1>4, KnownStays
<1>5. PassOk(rec[r]) BY DEF OnceInv, PassInv
<1>6. CASE rec'[r] = rec[r]
  <2>1. ~HealPlan(r) /\ ~ReleasePlan(r)
    <3>1. rec[r] \in RecType BY <1>1
    <3>2. SUFFICES ASSUME HealPlan(r) \/ ReleasePlan(r) PROVE FALSE OBVIOUS
    <3>3. rec'[r] = [rec[r] EXCEPT !.cur = NoPlan, !.pc = IF rec[r].todo = {} THEN "outcomes" ELSE "stuck"]
      BY <1>1, <3>2 DEF HealPlan, ReleasePlan, AfterStuck
    <3>4. rec'[r].pc \in {"outcomes", "stuck"} BY <3>1, <3>3 DEF RecType
    <3> QED BY <1>6, <3>2, <3>4 DEF HealPlan, ReleasePlan
  <2> QED BY <1>4, <1>5, <1>6, <2>1
<1>7. CASE Crash
  <2>1. v.pc = "idle" BY <1>7 DEF Crash, IdleRec
  <2> QED BY <2>1 DEF PassOk, Waiting, Settling
<1>8. CASE Reconciliation(r)
  <2>1. CASE HealPlan(r) \/ ReleasePlan(r)
    <3> QED BY <2>1, WriteStep
  <2>2. CASE StuckLookup(r)
    <3>1. PassOk(v) BY <2>2, LookupStep
    <3>2. ~HealPlan(r) /\ ~ReleasePlan(r) BY <2>2 DEF StuckLookup, HealPlan, ReleasePlan
    <3> QED BY <1>4, <3>1, <3>2
  <2>3. CASE ~HealPlan(r) /\ ~ReleasePlan(r) /\ ~StuckLookup(r)
    <3>1. PassOk(v) BY <1>8, <2>3, ReadStep
    <3> QED BY <1>4, <2>3, <3>1
  <2> QED BY <2>1, <2>2, <2>3
<1> QED BY <1>3, <1>6, <1>7, <1>8, RecFrame

\* The condition is inductive.
LEMMA OnceStep == Calm /\ IInv /\ WriteOffInv' /\ OnceInv /\ [Next]_vars => OnceInv'
BY HolderStep, LockStep, ReachedStep, ClosedStep, PassStep DEF OnceInv

\* While MT5 and the database answer in time and passes do not overlap, the
\* condition holds in every state, for any number of flows and restarts.
LEMMA OnceHolds == ASSUME Calm PROVE Spec => [](IInv /\ OnceInv)
<1>1. Init => WriteOffInv BY DEF Init, WriteOffInv, NoFalseFailure, NoOutcome, IdleRec, Judging
<1>2. IInv /\ WriteOffInv /\ [Next]_vars => WriteOffInv' BY WriteOffStep DEF Calm
<1>3. IInv /\ OnceInv /\ WriteOffInv' /\ [Next]_vars => OnceInv' BY OnceStep
<1> QED BY <1>1, <1>2, <1>3, InitOnce, Invariance, PTL DEF Spec

\* A plan never has two orders MT5 accepted or still holds, whatever flows
\* refresh, click, expire or die in between, as long as one pass runs at a time
\* and nothing outlives the grace period.
THEOREM SoleOrder == ASSUME Calm PROVE Spec => []AtMostOneOrder
<1>1. IInv /\ OnceInv => AtMostOneOrder BY DEF OnceInv, ReachedInv, AtMostOneOrder
<1> QED BY <1>1, OnceHolds, PTL

\* A live position is on record under its ticket, or the row of its plan still
\* carries the key that opened it: EXECUTING, so that the next pass finds it, or
\* EXPIRED, where a stale flow expired the row of a running execution by id and
\* nobody looks for its position any more.  No other leak exists, with any
\* number of flows, clicks and restarts, one pass at a time and no fault.
PositionTraced ==
  \A k \in OpenKeys : \/ outcome[owner[k]].ticket = k
                      \/ plan[owner[k]].key = k /\ plan[owner[k]].status \in {"EXECUTING", "EXPIRED"}

THEOREM PositionsTraced == ASSUME Calm PROVE Spec => []PositionTraced
<1>1. IInv /\ OnceInv => PositionTraced
  <2> SUFFICES ASSUME IInv, OnceInv, NEW k \in OpenKeys
               PROVE  \/ outcome[owner[k]].ticket = k
                      \/ plan[owner[k]].key = k /\ plan[owner[k]].status \in {"EXECUTING", "EXPIRED"}
    BY DEF PositionTraced
  <2> DEFINE p == owner[k]
  <2>1. k \in Keys /\ Reached(k) BY DEF OpenKeys, Reached
  <2>2. p \in Plans /\ plan[p].key = k /\ plan[p].status \in Bound
    BY <2>1 DEF OnceInv, ReachedInv
  <2>3. CASE plan[p].status = "EXECUTED"
    <3> DEFINE j == outcome[p].ticket
    <3>1. outcome[p].state # "none" BY <2>2, <2>3 DEF IInv, ExecutedHasOutcome
    <3>2. j \in Keys /\ Filled(j) /\ owner[j] = p BY <2>2, <3>1, CalmTickets
    <3>3. plan[owner[j]].key = j BY <3>2 DEF Filled, Reached, OnceInv, ReachedInv
    <3> QED BY <2>2, <3>2, <3>3
  <2> QED BY <2>2, <2>3 DEF Bound
<1> QED BY <1>1, OnceHolds, PTL

-----------------------------------------------------------------------------
(* The engine implements TradeOnce.  A plan has the order of its row's key *)
(* or none, so that what the abstract specification counts is 1 or 0.      *)

Placed(p) == \E k \in Keys : owner[k] = p /\ Reached(k)

\* A set whose members are all one key counts one or none.
LEMMA CountOne ==
  ASSUME NEW S, NEW k, S \subseteq {k}
  PROVE  Cardinality(S) = IF S # {} THEN 1 ELSE 0
<1>1. S = {} \/ S = {k} OBVIOUS
<1> QED BY <1>1, FS_EmptySet, FS_Singleton

\* The orders of a plan number one or none.
LEMMA PlacedCount ==
  ASSUME ReachedInv
  PROVE  \A p \in Plans : PlacedOrders[p] = IF Placed(p) THEN 1 ELSE 0
<1> SUFFICES ASSUME NEW p \in Plans PROVE PlacedOrders[p] = IF Placed(p) THEN 1 ELSE 0 OBVIOUS
<1> DEFINE S == {k \in Keys : owner[k] = p /\ Reached(k)}
<1>1. PlacedOrders[p] = Cardinality(S) BY DEF PlacedOrders
<1>2. S \subseteq {plan[p].key} BY DEF ReachedInv
<1>3. S # {} <=> Placed(p) BY DEF Placed
<1> HIDE DEF S
<1> QED BY <1>1, <1>2, <1>3, CountOne

\* So they do in the next state.
LEMMA PlacedCountNext ==
  ASSUME ReachedInv'
  PROVE  \A p \in Plans : PlacedOrders'[p] = IF Placed(p)' THEN 1 ELSE 0
<1> SUFFICES ASSUME NEW p \in Plans PROVE PlacedOrders'[p] = IF Placed(p)' THEN 1 ELSE 0 OBVIOUS
<1> DEFINE S == {k \in Keys : owner'[k] = p /\ Reached(k)'}
<1>1. PlacedOrders'[p] = Cardinality(S) BY DEF PlacedOrders
<1>2. S \subseteq {plan'[p].key} BY DEF ReachedInv
<1>3. S # {} <=> Placed(p)' BY DEF Placed
<1> HIDE DEF S
<1> QED BY <1>1, <1>2, <1>3, CountOne

\* A flow that has yet to send has no order and no record.
LEMMA UnsentClean ==
  ASSUME IInv, OnceInv, NEW w \in Workers, worker[w].pc \in Unsent
  PROVE  LET p == worker[w].plan IN p \in Plans /\ ~Placed(p) /\ outcome[p].state = "none"
<1> DEFINE p == worker[w].plan
<1>1. worker[w].pc \in Held BY DEF Held
<1>2. /\ p \in Plans /\ worker[w].key \in Keys /\ order[worker[w].key] = "none"
      /\ plan[p].key = worker[w].key
  BY <1>1 DEF IInv, WorkerInv, WorkerOk, OnceInv, HolderInv
<1>3. ~Placed(p) BY <1>2 DEF Placed, OnceInv, ReachedInv, Reached
<1>4. outcome[p].state = "none"
  <2>1. SUFFICES ASSUME outcome[p].state # "none" PROVE FALSE OBVIOUS
  <2>2. \E k \in Keys : Filled(k) /\ owner[k] = p BY <1>2, <2>1 DEF IInv, RealTickets
  <2> QED BY <1>3, <2>2 DEF Placed, Filled, Reached
<1> QED BY <1>2, <1>3, <1>4

\* What the abstract specification sees of a state.
LEMMA SameMapped ==
  ASSUME OnceInv, OnceInv', \A p \in Plans : Placed(p)' <=> Placed(p)
  PROVE  PlacedOrders' = PlacedOrders
<1>1. \A p \in Plans : PlacedOrders'[p] = PlacedOrders[p]
  BY PlacedCount, PlacedCountNext DEF OnceInv
<1>2. /\ PlacedOrders = [p \in Plans |-> PlacedOrders[p]]
      /\ PlacedOrders' = [p \in Plans |-> PlacedOrders'[p]]
  BY DEF PlacedOrders
<1> QED BY <1>1, <1>2

\* An order that comes or goes changes the count of its own plan alone.
LEMMA OneMapped ==
  ASSUME OnceInv, OnceInv', NEW p \in Plans, \A q \in Plans \ {p} : Placed(q)' <=> Placed(q)
  PROVE  PlacedOrders' = [PlacedOrders EXCEPT ![p] = IF Placed(p)' THEN 1 ELSE 0]
<1>1. /\ \A q \in Plans \ {p} : PlacedOrders'[q] = PlacedOrders[q]
      /\ PlacedOrders'[p] = IF Placed(p)' THEN 1 ELSE 0
  BY PlacedCount, PlacedCountNext DEF OnceInv
<1>2. /\ PlacedOrders = [q \in Plans |-> PlacedOrders[q]]
      /\ PlacedOrders' = [q \in Plans |-> PlacedOrders'[q]]
  BY DEF PlacedOrders
<1> QED BY <1>1, <1>2

\* A step that leaves the orders alone: a record is written for an order that
\* is there, or closed, or nothing the abstract specification sees.
LEMMA RecordMapped ==
  ASSUME Calm, IInv, OnceInv, OnceInv', [Next]_vars, WriteOffInv', UNCHANGED <<order, owner>>
  PROVE  [Abstract!Next]_(Abstract!vars)
<1>1. PlacedOrders' = PlacedOrders BY DEF PlacedOrders, Reached
<1>2. outcome \in [Plans -> OutcomeType] /\ Booked = [p \in Plans |-> outcome[p].state]
      /\ Booked' = [p \in Plans |-> outcome'[p].state]
  BY DEF IInv, TypeOK, Booked
<1>3. ASSUME \A p \in Plans : outcome'[p].state = outcome[p].state
      PROVE  [Abstract!Next]_(Abstract!vars)
  BY <1>1, <1>2, <1>3 DEF Abstract!vars
\* A record is inserted for a filled order of the plan.
<1>4. ASSUME NEW p \in Plans, NEW k \in Keys, owner[k] = p, Filled(k),
             outcome' = [outcome EXCEPT ![p] = insertOutcome(@, k)]
      PROVE  [Abstract!Next]_(Abstract!vars)
  <2>1. outcome'[p] = insertOutcome(outcome[p], k) /\ \A q \in Plans \ {p} : outcome'[q] = outcome[q]
    BY <1>2, <1>4
  <2>2. CASE outcome[p].state # "none"
    <3>1. outcome'[p] = outcome[p] BY <2>1, <2>2 DEF insertOutcome
    <3> QED BY <1>3, <2>1, <3>1
  <2>3. CASE outcome[p].state = "none"
    <3>1. outcome'[p].state = "open" BY <2>1, <2>3 DEF insertOutcome
    <3>2. Placed(p) BY <1>4 DEF Placed, Filled, Reached
    <3>3. PlacedOrders[p] = 1 BY <3>2, PlacedCount DEF OnceInv
    <3>4. Booked' = [Booked EXCEPT ![p] = "open"] /\ Booked[p] = "none" BY <1>2, <2>1, <2>3, <3>1
    <3>5. Abstract!Record(p) BY <1>1, <3>3, <3>4 DEF Abstract!Record
    <3> QED BY <3>5 DEF Abstract!Next
  <2> QED BY <2>2, <2>3
<1>5. CASE UNCHANGED outcome BY <1>3, <1>5
<1>6. CASE \E p \in Plans : CooldownElapses(p)
  <2> PICK p \in Plans : CooldownElapses(p) BY <1>6
  <2>1. outcome' = [outcome EXCEPT ![p].recent = FALSE] BY DEF CooldownElapses
  <2>2. \A q \in Plans : outcome'[q].state = outcome[q].state BY <1>2, <2>1 DEF OutcomeType, NoOutcome
  <2> QED BY <1>3, <2>2
<1>7. CASE \E w \in Workers : RecordExecution(w)
  <2> PICK w \in Workers : RecordExecution(w) BY <1>7
  <2>1. worker[w].pc \in Held /\ worker[w].pc = "record" BY DEF RecordExecution, Held
  <2>2. /\ worker[w].plan \in Plans /\ worker[w].key \in Keys
        /\ owner[worker[w].key] = worker[w].plan /\ Filled(worker[w].key)
    BY <2>1 DEF IInv, WorkerInv, WorkerOk
  <2>3. outcome' = [outcome EXCEPT ![worker[w].plan] = insertOutcome(@, worker[w].key)]
    BY DEF RecordExecution, AnsweredTickets, Calm
  <2> QED BY <1>4, <2>2, <2>3
<1>8. CASE \E r \in Recs : AdoptPosition(r)
  <2> PICK r \in Recs : AdoptPosition(r) BY <1>8
  <2>1. PICK k \in rec[r].view : owner[k] = rec[r].cur
                                /\ outcome' = [outcome EXCEPT ![rec[r].cur] = insertOutcome(@, k)]
    BY DEF AdoptPosition
  <2>2. rec[r].cur \in Plans /\ k \in Keys /\ Filled(k)
    BY DEF AdoptPosition, IInv, RecInv, TypeOK, RecType
  <2> QED BY <1>4, <2>1, <2>2
<1>9. CASE \E r \in Recs : CloseOutcome(r)
  <2> PICK r \in Recs : CloseOutcome(r) BY <1>9
  <2> DEFINE p == rec[r].cur
  <2>1. outcome' = [outcome EXCEPT ![p] = closeOutcome(@, "closed")] BY DEF CloseOutcome
  <2>2. CASE p \in Plans /\ outcome[p].state = "open"
    <3>1. outcome[p] \in OutcomeType BY <1>2, <2>2
    <3>2. outcome'[p] = [outcome[p] EXCEPT !.state = "closed"] /\ \A q \in Plans \ {p} : outcome'[q] = outcome[q]
      BY <1>2, <2>1, <2>2 DEF closeOutcome
    <3>3. outcome'[p].state = "closed" BY <3>1, <3>2 DEF OutcomeType, NoOutcome
    <3>4. Booked' = [Booked EXCEPT ![p] = "closed"] /\ Booked[p] = "open" BY <1>2, <2>2, <3>2, <3>3
    <3>5. Abstract!Settle(p) BY <1>1, <3>4 DEF Abstract!Settle
    <3> QED BY <2>2, <3>5 DEF Abstract!Next
  <2>3. CASE ~(p \in Plans /\ outcome[p].state = "open")
    <3>1. \A q \in Plans : outcome'[q] = outcome[q] BY <1>2, <2>1, <2>3 DEF closeOutcome
    <3> QED BY <1>3, <3>1
  <2> QED BY <2>2, <2>3
<1>10. ~\E r \in Recs : FailOutcome(r) BY DEF FailOutcome, OnceInv, PassInv, PassOk
<1> QED BY <1>5, <1>6, <1>7, <1>8, <1>9, <1>10, OutcomeFrame

\* A step that changes the orders: one is placed, refused, filled or closed.
LEMMA OrderMapped ==
  ASSUME Calm, IInv, OnceInv, OnceInv', [Next]_vars, ~(UNCHANGED <<order, owner>>)
  PROVE  [Abstract!Next]_(Abstract!vars)
<1>1. order \in [Keys -> OrderState] /\ owner \in [Keys -> Plans \cup {NoPlan}]
  BY DEF IInv, TypeOK
<1>2. UNCHANGED outcome
  <2>1. \/ \E p \in Plans, w \in Workers : ClaimPlan(w, p)
        \/ \E w \in Workers : SendOrder(w)
        \/ \E k \in Keys : Fill(k) \/ Refuse(k) \/ ClosePosition(k)
    BY OrderFrame
  <2> QED BY <2>1 DEF ClaimPlan, SendOrder, Fill, Refuse, ClosePosition
<1>3. Booked' = Booked BY <1>2 DEF Booked
<1>4. ASSUME \A p \in Plans : Placed(p)' <=> Placed(p) PROVE [Abstract!Next]_(Abstract!vars)
  BY <1>3, <1>4, SameMapped DEF Abstract!vars
<1>5. ASSUME UNCHANGED owner, \A k \in Keys : order'[k] \in {"inflight", "open", "closed"} <=> Reached(k)
      PROVE  [Abstract!Next]_(Abstract!vars)
  <2>1. \A p \in Plans : Placed(p)' <=> Placed(p) BY <1>5 DEF Placed, Reached
  <2> QED BY <1>4, <2>1
<1>6. CASE \E p \in Plans, w \in Workers : ClaimPlan(w, p)
  <2> PICK p \in Plans, w \in Workers : ClaimPlan(w, p) BY <1>6
  <2>1. /\ nextKey \in Keys /\ owner' = [owner EXCEPT ![nextKey] = p] /\ UNCHANGED order
        /\ order[nextKey] = "none"
    BY BoundsAssumption DEF ClaimPlan, IInv, TypeOK, KeyInv, Keys
  <2>2. \A k \in Keys : Reached(k) => owner'[k] = owner[k] BY <1>1, <2>1 DEF Reached
  <2>3. \A k \in Keys : Reached(k)' <=> Reached(k) BY <2>1 DEF Reached
  <2>4. \A q \in Plans : Placed(q)' <=> Placed(q) BY <2>2, <2>3 DEF Placed
  <2> QED BY <1>4, <2>4
<1>7. CASE \E k \in Keys : Fill(k) \/ ClosePosition(k)
  BY <1>1, <1>5, <1>7 DEF Fill, ClosePosition, Reached
<1>8. CASE \E w \in Workers : SendOrder(w)
  <2> PICK w \in Workers : SendOrder(w) BY <1>8
  <2>0. worker[w].pc \in Unsent /\ worker[w].pc \in Held BY DEF SendOrder, Unsent, Held
  <2>1. SUFFICES ASSUME NEW k \in Keys, NEW p \in Plans, k = worker[w].key, p = worker[w].plan
                 PROVE  [Abstract!Next]_(Abstract!vars)
    BY <2>0 DEF IInv, WorkerInv, WorkerOk
  <2>2. k \in Keys /\ owner[k] = p BY <2>0, <2>1 DEF IInv, WorkerInv, WorkerOk
  <2>3. p \in Plans /\ ~Placed(p) /\ outcome[p].state = "none" BY <2>0, <2>1, UnsentClean
  <2>4. order' = [order EXCEPT ![k] = "inflight"] /\ UNCHANGED owner BY <2>1 DEF SendOrder
  <2>5. order'[k] = "inflight" /\ \A j \in Keys \ {k} : order'[j] = order[j] BY <1>1, <2>2, <2>4
  <2>6. Placed(p)' BY <2>2, <2>4, <2>5 DEF Placed, Reached
  <2>7. \A q \in Plans \ {p} : Placed(q)' <=> Placed(q)
    BY <2>2, <2>4, <2>5 DEF Placed, Reached
  <2>8. PlacedOrders' = [PlacedOrders EXCEPT ![p] = 1] BY <2>3, <2>6, <2>7, OneMapped
  <2>9. PlacedOrders[p] = 0 /\ Booked[p] = "none" BY <2>3, PlacedCount DEF OnceInv, Booked
  <2>10. Abstract!Place(p) BY <1>3, <2>8, <2>9 DEF Abstract!Place
  <2> QED BY <2>3, <2>10 DEF Abstract!Next
<1>9. CASE \E k \in Keys : Refuse(k)
  <2> PICK k \in Keys : Refuse(k) BY <1>9
  <2>0. SUFFICES ASSUME NEW p, p = owner[k] PROVE [Abstract!Next]_(Abstract!vars) OBVIOUS
  <2> DEFINE S == {p}
  <2>1. order[k] = "inflight" /\ order' = [order EXCEPT ![k] = "refused"] /\ UNCHANGED owner BY DEF Refuse
  <2>2. Reached(k) BY <2>1 DEF Reached
  <2>3. p \in Plans /\ Placed(p) /\ \A j \in Keys : owner[j] = p /\ Reached(j) => j = k
    BY <2>0, <2>2 DEF OnceInv, ReachedInv, Placed
  <2>4. order'[k] = "refused" /\ \A j \in Keys \ {k} : order'[j] = order[j] BY <1>1, <2>1
  <2>5. outcome[p].state = "none"
    <3>1. SUFFICES ASSUME outcome[p].state # "none" PROVE FALSE OBVIOUS
    <3>2. \E j \in Keys : Filled(j) /\ owner[j] = p BY <2>3, <3>1 DEF IInv, RealTickets
    <3> QED BY <2>1, <2>3, <3>2 DEF Filled, Reached
  <2>6. \A j \in Keys : Reached(j)' <=> Reached(j) /\ j # k BY <2>4 DEF Reached
  <2>7. ~Placed(p)' BY <2>1, <2>3, <2>6 DEF Placed
  <2>8. \A q \in Plans \ {p} : Placed(q)' <=> Placed(q) BY <2>0, <2>1, <2>6 DEF Placed
  <2>9. PlacedOrders' = [PlacedOrders EXCEPT ![p] = 0] BY <2>3, <2>7, <2>8, OneMapped
  <2>10. PlacedOrders = [q \in Plans |-> PlacedOrders[q]] BY DEF PlacedOrders
  <2>11. PlacedOrders' = [q \in Plans |-> IF q \in S THEN 0 ELSE PlacedOrders[q]] BY <2>9, <2>10
  <2>12. PlacedOrders[p] = 1 /\ Booked[p] = "none" BY <2>3, <2>5, PlacedCount DEF OnceInv, Booked
  <2>13. Abstract!Refuse(S) BY <1>3, <2>11, <2>12 DEF Abstract!Refuse
  <2>14. S \in SUBSET Plans BY <2>3
  <2> HIDE DEF S
  <2> QED BY <2>13, <2>14 DEF Abstract!Next
<1> QED BY <1>6, <1>7, <1>8, <1>9, OrderFrame

\* The engine implements TradeOnce: of every plan at most one order is at MT5,
\* another only after MT5 refused it, and it is recorded once, for any number
\* of flows and restarts, while passes do not overlap and nothing fails.
THEOREM TradedOnce == ASSUME Calm PROVE Spec => TradesOnce
<1>1. Init => WriteOffInv BY DEF Init, WriteOffInv, NoFalseFailure, NoOutcome, IdleRec, Judging
<1>2. IInv /\ WriteOffInv /\ [Next]_vars => WriteOffInv' BY WriteOffStep DEF Calm
<1>3. Init => Abstract!Init
  <2> SUFFICES ASSUME Init PROVE Abstract!Init OBVIOUS
  <2>1. ReachedInv /\ \A p \in Plans : ~Placed(p) BY DEF Init, ReachedInv, Placed, Reached
  <2>2. \A p \in Plans : PlacedOrders[p] = 0 BY <2>1, PlacedCount
  <2>3. PlacedOrders = [p \in Plans |-> 0]
    <3>1. PlacedOrders = [p \in Plans |-> PlacedOrders[p]] BY DEF PlacedOrders
    <3> QED BY <2>2, <3>1
  <2>4. Booked = [p \in Plans |-> "none"] BY DEF Init, Booked, NoOutcome
  <2> QED BY <2>3, <2>4 DEF Abstract!Init
<1>4. IInv /\ OnceInv /\ OnceInv' /\ WriteOffInv' /\ [Next]_vars => [Abstract!Next]_(Abstract!vars)
  BY RecordMapped, OrderMapped
<1> QED BY <1>1, <1>2, <1>3, <1>4, OnceHolds, Invariance, PTL DEF Spec, TradesOnce, Abstract!Spec
=============================================================================
