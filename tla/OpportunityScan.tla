------------------------- MODULE OpportunityScan -------------------------
(***************************************************************************)
(* The two scanners that turn completed candles into AI trade plans:       *)
(* runOpportunityScan() of opportunity-scan.ts, started by the owner's     *)
(* FIND BEST TRADES click, and runM5OpportunityScan() of                   *)
(* m5-opportunity-scan.ts, started by the poll of m5-cycle-scheduler.ts.   *)
(* Both are asynchronous functions of one process, so any number of them   *)
(* overlap; they meet in ai_trade_plans (plans), in shadow_trades          *)
(* (shadowed) and at MT5 (held).                                           *)
(*                                                                         *)
(* Time is counted in completed M5 candles.  Scores, prices and sizes are  *)
(* choices: a shortlist is any small enough set, a verdict of the Risk     *)
(* Engine that does not come from a held symbol is PASS or REJECT.         *)
(***************************************************************************)
EXTENDS Integers, Sequences, FiniteSets

CONSTANTS
  Symbols,          \* visible rows of instruments
  Cycles,           \* scans the scheduler can have in flight at once
  Clicks,           \* scans the owner can have in flight at once
  MaxCandle,        \* bound: last M5 candle
  CandlesPerHour,   \* M5 candles of one H1 candle
  ShortlistSize,    \* m5_ai_shortlist_size, ai_best_trades_shortlist_size
  TopCount,         \* real_demo_top_candidates, ai_best_trades_top_count
  StageB,           \* STAGE_B_CONCURRENCY
  MaxPlans          \* bound: rows of ai_trade_plans

ASSUME ScanAssumption ==
  /\ {MaxCandle, CandlesPerHour, ShortlistSize, TopCount, StageB, MaxPlans} \subseteq Nat
  /\ CandlesPerHour > 0 /\ StageB > 0
  /\ Cycles \cap Clicks = {}

VARIABLES
  candle,     \* the last completed M5 candle
  plans,      \* ai_trade_plans in the order of created_at
  held,       \* symbols with a position or a pending order at MT5
  processed,  \* lastProcessedBoundaryMs
  shadowed,   \* plans with a row in shadow_trades
  scan        \* the local state of every scan

vars == <<candle, plans, held, processed, shadowed, scan>>

Scans == Cycles \cup Clicks

None == -1

Candles == 0 .. MaxCandle

hour(c) == c \div CandlesPerHour

PlanIds == 1 .. MaxPlans

\* PLACED stands for a pending order or a position, ENDED for every status a plan
\* does not leave: closed, cancelled, expired.
PlanStatus == {"WAITING_FOR_APPROVAL", "RISK_BLOCKED", "PENDING_ORDER_SUBMITTING",
               "PLACED", "EXECUTION_FAILED", "ENDED"}

\* The stored verdict is REJECT for the plans saved as RISK_BLOCKED.  Size 1 is
\* the volume of the analysis, size 2 that of the quality tier.
PlanType == [symbol: Symbols, candle: Candles, status: PlanStatus, size: 1 .. 2]

\* A row of a scan's result: the plan it stands for and whether it counts as
\* ready.  A row that is not actionable (an error, WAIT, NO_EXECUTION) has none.
NoRow == [plan |-> 0, pass |-> FALSE]

RowType == [plan: 0 .. MaxPlans, pass: BOOLEAN]

Idle ==
  [pc |-> "idle", boundary |-> None, heldAt |-> {}, heldSince |-> {}, spent |-> {},
   todo |-> [x \in {} |-> None], asking |-> [x \in {} |-> None],
   row |-> [x \in Symbols |-> NoRow], top |-> {}, left |-> {}]

ScanPc == {"idle", "evaluate", "analyse", "size", "shadow", "shown"}

\* The candle of the package each symbol in hand was read with.
Packages == UNION {[S -> Candles] : S \in SUBSET Symbols}

\* heldAt is the snapshot of the lists (liveState).  heldSince and spent observe a
\* click: the symbols every list since its start has shown as held and that were
\* held throughout, and the plans that have not waited for approval since its start.
ScanType ==
  [pc: ScanPc, boundary: Candles \cup {None}, heldAt: SUBSET Symbols, heldSince: SUBSET Symbols,
   spent: SUBSET PlanIds, todo: Packages, asking: Packages, row: [Symbols -> RowType],
   top: SUBSET Symbols, left: SUBSET Symbols]

without(f, x) == [y \in DOMAIN f \ {x} |-> f[y]]

with(f, x, v) == [y \in DOMAIN f \cup {x} |-> IF y = x THEN v ELSE f[y]]

actionable(s) == {x \in Symbols : scan[s].row[x].plan # 0}

Spent == {p \in DOMAIN plans : plans[p].status # "WAITING_FOR_APPROVAL"}

(***************************************************************************)
(* Stage A                                                                 *)
(***************************************************************************)

\* listMt5Positions() and listMt5PendingOrders() answer [] when they fail.
Lists == {held, {}}

\* The poll starts a cycle whenever the boundary is not the recorded one: a
\* cycle that still runs for the same boundary does not stop it.  No verdict of
\* this model reads a cycle's snapshot, which is left out.
StartCycle(s) ==
  /\ s \in Cycles /\ scan[s].pc = "idle"
  /\ candle # processed
  /\ scan' = [scan EXCEPT ![s] = [Idle EXCEPT !.pc = "evaluate", !.boundary = candle]]
  /\ UNCHANGED <<candle, plans, held, processed, shadowed>>

StartClick(s) ==
  /\ s \in Clicks /\ scan[s].pc = "idle"
  /\ \E h \in Lists :
       scan' = [scan EXCEPT ![s] = [Idle EXCEPT !.pc = "evaluate", !.heldAt = h,
                                               !.heldSince = h, !.spent = Spent]]
  /\ UNCHANGED <<candle, plans, held, processed, shadowed>>

\* Candles, quotes and spreads decide which symbols are eligible; a symbol whose
\* reads fail is rejected.
Eligible == SUBSET Symbols

shortlists == {S \in Eligible : Cardinality(S) <= ShortlistSize}

\* The shortlisted packages are those of the candle just completed.
EvaluateAll(s) ==
  /\ scan[s].pc = "evaluate"
  /\ \E S \in shortlists :
       scan' = [scan EXCEPT ![s] = [@ EXCEPT !.pc = "analyse", !.todo = [x \in S |-> candle]]]
  /\ UNCHANGED <<candle, plans, held, processed, shadowed>>

(***************************************************************************)
(* Stage B: reuse a plan or ask the AI                                     *)
(***************************************************************************)

sameCandle(s, c, d) == IF s \in Cycles THEN c = d ELSE hour(c) = hour(d)

\* The plans findReusablePlanForTimeframe() selects from: same symbol, made from
\* a package with the same last closed candle (M5 for a cycle, H1 for a click).
reusable(s, x, c) ==
  {p \in DOMAIN plans : plans[p].symbol = x /\ sameCandle(s, plans[p].candle, c)}

\* ORDER BY created_at DESC LIMIT 1; the age limit may exclude it.
newest(P) == {p \in P : \A q \in P : q <= p}

\* Mutant: the account is not looked at again.
freshRiskStored(s, x, other) == other

\* reevaluateRiskForReusedPlan(): the stored verdict is replaced by one against
\* the account as the scan read it.
freshRisk(s, x, other) == IF x \in scan[s].heldAt THEN "REJECT" ELSE other

\* Mutant: the verdict alone makes a reused plan ready.
clickRowByVerdict(s, p, other) ==
  [plan |-> p, pass |-> freshRisk(s, plans[p].symbol, other) = "PASS"]

\* A click shows a reused plan as ready only while it waits for approval.
clickRow(s, p, other) ==
  [plan |-> p, pass |-> /\ freshRisk(s, plans[p].symbol, other) = "PASS"
                        /\ plans[p].status = "WAITING_FOR_APPROVAL"]

\* toScanRowFromPlanRow(): a cycle takes the stored verdict, whatever became of
\* the plan since.
cycleRow(p) == [plan |-> p, pass |-> plans[p].status # "RISK_BLOCKED"]

reusedRow(s, p, other) ==
  IF s \in Cycles THEN cycleRow(p) ELSE clickRow(s, p, other)

Reuse(s, x) ==
  /\ scan[s].pc = "analyse" /\ x \in DOMAIN scan[s].todo
  /\ Cardinality(DOMAIN scan[s].asking) < StageB
  /\ \E p \in newest(reusable(s, x, scan[s].todo[x])), other \in {"PASS", "REJECT"} :
       scan' = [scan EXCEPT ![s] =
         [@ EXCEPT !.todo = without(scan[s].todo, x), !.row[x] = reusedRow(s, p, other)]]
  /\ UNCHANGED <<candle, plans, held, processed, shadowed>>

\* analyzeSymbolWithAI() fetches the package again before it asks.  The guard
\* leaves out no case: a plan that exists may be too old to be reused.
Ask(s, x) ==
  /\ scan[s].pc = "analyse" /\ x \in DOMAIN scan[s].todo
  /\ Cardinality(DOMAIN scan[s].asking) < StageB
  /\ scan' = [scan EXCEPT ![s] =
       [@ EXCEPT !.todo = without(scan[s].todo, x), !.asking = with(scan[s].asking, x, candle)]]
  /\ UNCHANGED <<candle, plans, held, processed, shadowed>>

\* The answer is a plan: it is judged against the account of this moment, and
\* saved waiting for approval or blocked.
AnswerPlan(s, x) ==
  /\ scan[s].pc = "analyse" /\ x \in DOMAIN scan[s].asking
  /\ Len(plans) < MaxPlans
  /\ \E h \in Lists, other \in {"PASS", "REJECT"} :
       LET risk == IF x \in h THEN "REJECT" ELSE other
           plan == [symbol |-> x, candle |-> scan[s].asking[x],
                    status |-> IF risk = "PASS" THEN "WAITING_FOR_APPROVAL" ELSE "RISK_BLOCKED",
                    size |-> 1]
       IN /\ plans' = Append(plans, plan)
          /\ scan' = [scan EXCEPT ![s] =
               [@ EXCEPT !.asking = without(scan[s].asking, x), !.heldSince = scan[s].heldSince \cap h,
                         !.row[x] = [plan |-> Len(plans) + 1, pass |-> risk = "PASS"]]]
  /\ UNCHANGED <<candle, held, processed, shadowed>>

\* WAIT, an answer the schema refuses, a provider that fails: no plan is saved.  A
\* plan saved with NO_EXECUTION (its market was closed) counts here too: its row
\* is not actionable.
AnswerNothing(s, x) ==
  /\ scan[s].pc = "analyse" /\ x \in DOMAIN scan[s].asking
  /\ scan' = [scan EXCEPT ![s] = [@ EXCEPT !.asking = without(scan[s].asking, x)]]
  /\ UNCHANGED <<candle, plans, held, processed, shadowed>>

answered(s) == scan[s].pc = "analyse" /\ DOMAIN scan[s].todo = {} /\ DOMAIN scan[s].asking = {}

(***************************************************************************)
(* Stage C: preflight and ranking                                          *)
(***************************************************************************)

\* order_check() of the exact request: any of the ready rows may pass.
preflighted(s) == SUBSET {x \in actionable(s) : scan[s].row[x].pass}

\* The click shows the ready rows that pass, buy limits only, at most TopCount.
RankClick(s) ==
  /\ s \in Clicks /\ answered(s)
  /\ \E T \in preflighted(s) :
       /\ Cardinality(T) <= TopCount
       /\ scan' = [scan EXCEPT ![s] = [@ EXCEPT !.pc = "shadow", !.heldAt = {}, !.top = T,
                                                !.left = actionable(s)]]
  /\ UNCHANGED <<candle, plans, held, processed, shadowed>>

\* The cycle takes the best of the rows above the score threshold that pass.
RankCycle(s) ==
  /\ s \in Cycles /\ answered(s)
  /\ \E T \in preflighted(s) :
       /\ Cardinality(T) <= TopCount
       /\ scan' = [scan EXCEPT ![s] = [@ EXCEPT !.pc = "size", !.top = T, !.left = T]]
  /\ UNCHANGED <<candle, plans, held, processed, shadowed>>

\* Mutant: the UPDATE does not ask for the status.
resizeAnyway(p) == plans' \in {plans, [plans EXCEPT ![p].size = 2]}

\* applyQualityBasedSizing(): the tier's size replaces that of a plan that still
\* waits, when the Risk Engine passes it.
resize(p) ==
  IF plans[p].status = "WAITING_FOR_APPROVAL"
  THEN plans' \in {plans, [plans EXCEPT ![p].size = 2]}
  ELSE plans' = plans

Size(s, x) ==
  /\ scan[s].pc = "size" /\ x \in scan[s].left
  /\ resize(scan[s].row[x].plan)
  /\ scan' = [scan EXCEPT ![s] = [@ EXCEPT !.left = scan[s].left \ {x}]]
  /\ UNCHANGED <<candle, held, processed, shadowed>>

\* Mutant: only the top candidates get a shadow trade.
SaveTop(s) ==
  /\ scan[s].pc = "size" /\ scan[s].left = {}
  /\ scan' = [scan EXCEPT ![s] = [@ EXCEPT !.pc = "shadow", !.left = scan[s].top]]
  /\ UNCHANGED <<candle, plans, held, processed, shadowed>>

Save(s) ==
  /\ scan[s].pc = "size" /\ scan[s].left = {}
  /\ scan' = [scan EXCEPT ![s] = [@ EXCEPT !.pc = "shadow", !.left = actionable(s)]]
  /\ UNCHANGED <<candle, plans, held, processed, shadowed>>

(***************************************************************************)
(* Shadow trades and the end of a scan                                     *)
(***************************************************************************)

\* INSERT ... ON CONFLICT (ai_trade_plan_id) DO NOTHING, one row at a time.
CreateShadow(s, x) ==
  /\ scan[s].pc = "shadow" /\ x \in scan[s].left
  /\ shadowed' = shadowed \cup {scan[s].row[x].plan}
  /\ scan' = [scan EXCEPT ![s] = [@ EXCEPT !.left = scan[s].left \ {x}]]
  /\ UNCHANGED <<candle, plans, held, processed>>

\* A click survives a shadow trade that cannot be written, then saves its cards.
GiveUpShadows(s) ==
  /\ s \in Clicks /\ scan[s].pc = "shadow" /\ scan[s].left # {}
  /\ scan' = [scan EXCEPT ![s] = [@ EXCEPT !.left = {}]]
  /\ UNCHANGED <<candle, plans, held, processed, shadowed>>

Show(s) ==
  /\ s \in Clicks /\ scan[s].pc = "shadow" /\ scan[s].left = {}
  /\ scan' = [scan EXCEPT ![s] = [@ EXCEPT !.pc = "shown"]]
  /\ UNCHANGED <<candle, plans, held, processed, shadowed>>

Leave(s) ==
  /\ scan[s].pc = "shown"
  /\ scan' = [scan EXCEPT ![s] = Idle]
  /\ UNCHANGED <<candle, plans, held, processed, shadowed>>

\* runOneM5Cycle() records the boundary only when the whole scan succeeded.
Record(s) ==
  /\ s \in Cycles /\ scan[s].pc = "shadow" /\ scan[s].left = {}
  /\ processed' = scan[s].boundary
  /\ scan' = [scan EXCEPT ![s] = Idle]
  /\ UNCHANGED <<candle, plans, held, shadowed>>

\* MT5 status or a statement failed: the scan is abandoned, nothing recorded.
Fail(s) ==
  /\ scan[s].pc \notin {"idle", "shown"}
  /\ scan' = [scan EXCEPT ![s] = Idle]
  /\ UNCHANGED <<candle, plans, held, processed, shadowed>>

Restart ==
  /\ scan' = [s \in Scans |-> Idle]
  /\ processed' = None
  /\ UNCHANGED <<candle, plans, held, shadowed>>

(***************************************************************************)
(* The world around the scans                                              *)
(***************************************************************************)

NextCandle ==
  /\ candle < MaxCandle
  /\ candle' = candle + 1
  /\ UNCHANGED <<plans, held, processed, shadowed, scan>>

\* The owner's approval claims the plan (claimPlanForApproval).
Claim(p) ==
  /\ plans[p].status = "WAITING_FOR_APPROVAL"
  /\ plans' = [plans EXCEPT ![p].status = "PENDING_ORDER_SUBMITTING"]
  /\ UNCHANGED <<candle, held, processed, shadowed, scan>>

\* The answer, or its absence: an order refused or not confirmed may exist at MT5.
Submit(p) ==
  /\ plans[p].status = "PENDING_ORDER_SUBMITTING"
  /\ \/ /\ plans' = [plans EXCEPT ![p].status = "PLACED"]
        /\ held' = held \cup {plans[p].symbol}
     \/ /\ plans' = [plans EXCEPT ![p].status = "EXECUTION_FAILED"]
        /\ held' \in {held, held \cup {plans[p].symbol}}
  /\ UNCHANGED <<candle, processed, shadowed, scan>>

\* A plan nothing was found of is offered for approval again: an unconfirmed one by
\* the retry click, a stuck one by the watcher, which writes by the id of a row it
\* read earlier and so may overwrite what the answer wrote meanwhile.
Release(p) ==
  /\ plans[p].status \in {"PENDING_ORDER_SUBMITTING", "PLACED", "EXECUTION_FAILED"}
  /\ plans' = [plans EXCEPT ![p].status = "WAITING_FOR_APPROVAL"]
  /\ scan' = [s \in Scans |-> [scan[s] EXCEPT !.spent = scan[s].spent \ {p}]]
  /\ UNCHANGED <<candle, held, processed, shadowed>>

\* A plan expires, its order or position is found cancelled or closed.
End(p) ==
  /\ plans[p].status \in {"WAITING_FOR_APPROVAL", "PENDING_ORDER_SUBMITTING", "PLACED"}
  /\ plans' = [plans EXCEPT ![p].status = "ENDED"]
  /\ UNCHANGED <<candle, held, processed, shadowed, scan>>

\* The orders and positions of a symbol end at MT5.
Free(x) ==
  /\ x \in held
  /\ held' = held \ {x}
  /\ scan' = [s \in Scans |-> [scan[s] EXCEPT !.heldSince = scan[s].heldSince \ {x}]]
  /\ UNCHANGED <<candle, plans, processed, shadowed>>

Init ==
  /\ candle = 0 /\ plans = <<>> /\ processed = None /\ shadowed = {}
  /\ held \in SUBSET Symbols
  /\ scan = [s \in Scans |-> Idle]

Step(s) ==
  \/ StartCycle(s) \/ StartClick(s) \/ EvaluateAll(s)
  \/ \E x \in Symbols :
       \/ Reuse(s, x) \/ Ask(s, x) \/ AnswerPlan(s, x) \/ AnswerNothing(s, x)
       \/ Size(s, x) \/ CreateShadow(s, x)
  \/ RankClick(s) \/ RankCycle(s) \/ Save(s)
  \/ GiveUpShadows(s) \/ Show(s) \/ Leave(s) \/ Record(s) \/ Fail(s)

Next ==
  \/ \E s \in Scans : Step(s)
  \/ \E p \in DOMAIN plans : Claim(p) \/ Submit(p) \/ Release(p) \/ End(p)
  \/ \E x \in Symbols : Free(x)
  \/ NextCandle \/ Restart

Spec == Init /\ [][Next]_vars

(***************************************************************************)
(* Properties                                                              *)
(***************************************************************************)

\* The types of the rows and of the scans.
TypeOK ==
  /\ candle \in Candles /\ processed \in Candles \cup {None}
  /\ plans \in Seq(PlanType) /\ Len(plans) <= MaxPlans
  /\ held \subseteq Symbols /\ shadowed \subseteq PlanIds
  /\ scan \in [Scans -> ScanType]

\* A card of FIND BEST TRADES never stands for a plan that was placed, blocked,
\* failed or expired when the scan began and has not been offered for approval again
\* since, whichever plan of the candle the reuse cache resurfaced
\* (opportunity-scan.ts, runOpportunityScan).
ManualCardsFresh ==
  \A s \in Clicks : scan[s].pc = "shown" =>
    \A x \in scan[s].top : scan[s].row[x].plan \notin scan[s].spent

\* Nor for a symbol that was held at MT5 from the scan's start to its end, unless
\* a list of positions or orders failed and was read as empty.
HeldNeverOffered ==
  \A s \in Clicks : scan[s].pc = "shown" =>
    scan[s].top \cap scan[s].heldSince = {}

\* Once an approval has claimed a plan, or the plan was blocked or ended, the size
\* on record stays what the owner saw: a cycle that ranked the plan before the
\* click does not re-size it afterwards (applyQualityBasedSizing, demo-sizing.ts).
SizeFrozen ==
  [][\A p \in DOMAIN plans : plans[p].status # "WAITING_FOR_APPROVAL" =>
       plans'[p].size = plans[p].size]_vars

\* When a cycle records its candle, every actionable plan of that cycle has its
\* shadow trade, the ones outside the top candidates included.
CycleComplete ==
  [][\A s \in Cycles : Record(s) =>
       \A x \in actionable(s) : scan[s].row[x].plan \in shadowed]_vars
=============================================================================
