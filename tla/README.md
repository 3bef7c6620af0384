# Verification of the MT5 demo trading system

TLA+ models of the parts of this repository that decide which order is sent,
how large it is and what is recorded of it, checked with TLC and, where it
matters most, proved with TLAPS. Paths are relative to the repository root; `E`
stands for `apps/api/src/services/mt5-entry-plan-watcher.ts`, `T` for
`apps/api/src/services/trading-ai/trading-ai-service.ts`, `W` for
`apps/api/src/services/trading-ai/ai-trade-plan-watcher.ts`.

## 1. The system

One Node process (`apps/api`) holds every decision. It talks over HTTP to one
Python process (`services/trading-engine`), which drives the MT5 terminal and
holds the paper broker, and keeps its state in PostgreSQL.
`apps/api/src/index.ts` starts five timers in the same event loop (H1 scheduler,
entry-plan watcher, AI-plan watcher, M5 cycle scheduler, shadow-trade watcher)
next to the HTTP routes, so that every `await` is a point where another flow may
run. The database and MT5 outlive a restart of the Node process; its local
variables and timers do not. The paper broker lives in the memory of the Python
process and forgets everything when that restarts.

| Component | State | Operations | Hard behaviour | What makes it correct |
|---|---|---|---|---|
| H1 entry-plan engine (`E`) | `mt5_entry_plans`, `trade_outcomes` | refresh, claim, execute, block, expire, reconcile stuck executions, reconcile open trades | ticks overlap (setInterval, no guard) and race an owner's click; order_send times out while MT5 fills it; restarts anywhere | one order per plan, a record for every position, no record without one, a stuck plan is decided |
| H1 scheduler, demo lab (`mt5-hourly-scheduler.ts`, `mt5-demo-lab-service.ts`) | `ai_decisions`, entry-plan rows | re-analyses every symbol each 60 s and upserts the same plan | its upsert lands on rows that other flows hold | an upsert never undoes an execution |
| AI trade plans (`T`, `W`) | `ai_trade_plans`, `trade_outcomes` | approve, place market or pending order, background confirmation, cancel, watcher | four flows write one row; an unconfirmed send; retries by hand | no blind second order_send; no live order forgotten |
| Demo gateway (`services/trading-engine/mt5/adapter.py`) | none of its own | guard, order_check, order_send, confirmation | a send succeeds and nothing is visible yet; two candidates | an answer of success names a real position or order |
| Opportunity scan, M5 cycle (`trading-ai/opportunity-scan.ts`, `m5-opportunity-scan.ts`, `m5-cycle-scheduler.ts`) | in-memory gate, `ai_trade_plans` | shortlist, reuse or ask, preflight, re-size, write shadow trades | scans overlap, reuse plans of other scans and race approvals; the gate is set at the end | an offered plan can be approved, a completed cycle is complete |
| Shadow trades (`trading-ai/shadow-trade-*.ts`) | `shadow_trades` | create, trigger, expire, replay candles | both levels in one candle, missing M1 bars, overlapping passes | the verdict is the one the price history gives |
| Risk engine, plan schema, sizing by quality (`mt5-risk-engine.ts`, `trading-ai/schema.ts`, `demo-sizing.ts`, `final-quality-score.ts`) | none | accept, size, re-size, size again at the approval | three sizings at three prices and accounts; rounding to volume steps | an order stays within budget, margin and cap |
| Session status (`services/trading-engine/mt5/session_status.py`) | a cache file | find a schedule in four sources, compare the clock | sessions over midnight and over the end of the week, failing sources | the status is the one of the schedule |
| Paper proposals and execution (`trade-proposal-service.ts`, `trade-execution-service.ts`), paper broker (`broker/paper_broker.py`) | proposals, approvals, orders, fills, positions; the broker's memory | propose, approve, execute, bracket exits, time exits, expire | the broker is called inside a transaction; lost answers; two requests for one symbol | an approval trades once; fills, positions and broker agree |
| Paper strategies and risk (`services/trading-engine/strategy`, `risk/engine.py`, the four decision services) | none | decide, size, control, check again at approval | market and portfolio move between the two checks | what is approved fits the portfolio it is approved for |
| Backtests (`services/trading-engine/backtesting`) | none | run, walk forward, compare timeframes | look-ahead, round trips and equity counted twice | no decision depends on a later bar |
| AI Trade page (`apps/web/pages/ai-trade.vue`) and its routes | selection, plan shown, dialog, outcome, polling | analyse, scan, approve, poll, close | the owner clicks on while requests are in flight; answers come late, in any order or never | one approval at a time; an outcome shown is about the plan that was sent |
| AI Analysis page (`analysis.vue`, `TradeInDemoModal.vue`, `useTradeExecution.ts`) and its routes | selection, analysis, modal, execution, outcome | analyse, refresh every 10 s, trade in demo, close | stale answers; Escape under the modal; scheduler and watcher on the same rows | what is shown is of the selected symbol; what is shown as opened is at MT5 |
| Hourly scheduler of the paper flow (`hourly-scheduler.ts`) | `hourly_candle_processing` | tick, claim, decide, mark | ticks overlap, lost answers, restarts | each candle is decided on once |
| Authentication, other routes, settings, other pages, iOS, Alpaca, prompts and language models, validation scripts | tokens, denylist | - | - | - |

How they interact. The H1 scheduler and the list view upsert entry-plan rows;
the watcher's ticks and an owner's click claim and execute them through the
gateway. The scans write AI trade plans and shadow trades; approvals claim the
plans, which the watcher and the timers follow to their end. The AI Trade page asks for
analyses, approvals and the status of a plan, the AI Analysis page for analyses and demo trades
of a symbol. Both engines write
`trade_outcomes`, which `reconcileOpenTradeOutcomes` of `E` closes for both. They
share nothing else but MT5. The paper flow has tables of its own; `app.ts` no
longer mounts its routes, its services and tests remain.

## 2. Modules

| Module | Models |
|---|---|
| `EntryPlanRow` | one row of `mt5_entry_plans`: statuses, the status computed from a quote, and each SQL statement of `E` as a function of the row. Constant level. |
| `EntryPlanWatcher` | the execution engine: flows (`worker`), reconciliation passes (`rec`), MT5 (`order`), the records (`outcome`), deadlines, restarts. |
| `EntryPlanWatcherProofs` | its inductive invariant and theorems. |
| `AiTradePlanRow` | one row of `ai_trade_plans`, and each SQL statement on it as a function. Constant level. |
| `AiTradePlan` | requests (`flow`), background timers (`bg`), watcher ticks (`pass`), MT5 and the gateway's answers (`order`), the records (`outcome`). |
| `AiTradePlanProofs` | its inductive invariant and theorems. |
| `AiTradePlanClaims` | a statement the code does not keep. |
| `OpportunityScan` | the scans of `opportunity-scan.ts` and `m5-opportunity-scan.ts` with the gate of the cycle scheduler, the plans they share and their shadow trades. |
| `PaperBroker` | the paper broker as a value with operators: orders by key, brackets, positions, restart. |
| `PaperTrading` | proposals, approvals, executions, brackets and time exits around it. |
| `TradeOnce` | what the three engines promise of each plan: place at most one order, retry only after a refusal, record once, settle once. |
| `PaperTradingProofs` | sums over finite sets, and the invariant of its control: who may write which row. |
| `PaperTradingSafety` | its theorems: statuses, ledger, broker's books, bounds, exits, and that it implements `TradeOnce`. |
| `ShadowTrade` | one shadow trade on a tape of M1 bars, with overlapping passes of its watcher. |
| `ScanProofs` | the inductive invariants and theorems of `OpportunityScan` and `ShadowTrade`. |
| `Backtest` | the daily and intraday backtests, walk-forward validation, comparison of timeframes, as folds over bars. |
| `BacktestProofs` | what a fold is, the course of each run over its bars, and the two theorems. |
| `Mt5RiskEngine`, `PlanSchema`, `PlanQuality` | the MT5 Risk Engine, the schema of an AI answer and the quality score, as functions. Constant level. |
| `DemoSizing` | the size of one AI plan from its analysis to its order, over the three. |
| `SessionStatus` | the session schedule, its sources and its cache. |
| `PaperRisk` | decision, sizing, controls and second check of a paper proposal. |
| `DecisionProofs` | the theorems of `DemoSizing`, `PaperRisk` and `SessionStatus`. |
| `AiTradePage` | the AI Trade page over `AiTradePlanRow`, with the API's answers. |
| `AnalysisPage` | the AI Analysis page over `EntryPlanRow`, with the API's answers. |
| `HourlyScanner` | the hourly scheduler of the paper flow. |
| `DeskProofs` | the theorems of these three. |
| `MCEntryPlanWatcher`, `MCAiTradePlan`, `MCPaperTrading`, `MCNode` | small instances for TLC. |

### EntryPlanWatcher against the code

* `plan[p]` is the row; `key` is `execution_key` (`NoKey` for NULL); `aged` says
  that `executing_at` is older than the 120 s of `reconcileStuckExecutions`.
  `past[p]` is `valid_until <= now()`. `outcome[p]` is the `trade_outcomes` row
  with `entry_plan_id = p` (migration 0028 makes it unique); `failed` is
  `exit_reason = 'RECONCILIATION_FAILED'`. `recent` is the symbol's cooldown.
* `worker[w]` is one flow of the process: a row of a tick's loop, a row of
  `GET /entry-plans`, or a click. Ticks start from `setInterval` without an
  overlap guard, so any number of flows may be under way. The model has one action for each `await`
  whose result another flow can influence; several reads that feed one
  decision are one action where the outcomes of the separate reads are
  among those of the joint one (cooldown and trade count in `CheckLimits`: a
  block is always possible through `GateRejects`, and a pass on separate reads
  is a pass on the joint read at the time of the first).
* `rec[r]` is one run of `reconcileStuckExecutions`, `reconcileOpenTradeOutcomes`
  and `expireStalePlans`, in this order, each caught on its own.
* `order[k]` is what became of the one `order_send` made under claim `k`. MT5 is
  external: `Fill`, `Refuse` and `ClosePosition` are its steps. A position carries
  the plan's comment (`planCommentRef`), which is `owner[k]`.
* `AnalyzePlan` is `runAssistedAnalysis` on the plan's own candle: it may come
  at any time and writes any status that `computeRawEntryStatus` can give
  (`Computed`, derived from all combinations of the inputs it tests).
* The gateway answers success only when it sees the position
  (`ConfirmedAnswer`); `NoAnswer` is every exception of `sendMt5Order`.

The environment's misbehaviour is a constant, `Faults`, so that each property
says under which faults it holds: `read` (listing positions fails and is taken
as `[]`), `blank` (`positions_get()` gives None, which the adapter turns into
`[]`), `history` (deal history fails), `db` (a statement fails), `slow` (an
execution outlives the grace period), `dealonly` (order_send answers with a deal and
`order = 0`, which the gateway accepts, `adapter.py`:562-565: the record's `order_ticket` is then
`'0'` or null, `NoKey` in the model), `fastclose` (a position closes before it
is recorded). Restarts are bounded by `MaxCrashes` and need no fault.

Left out: prices, volumes and messages; `sendMt5DemoTestOrder` (an order without
a plan); two plan ids with the same first 16 digits; more than one trading day;
the LIMITs of 50 and 100 rows. `CANCELLED` is written by no statement.

### AiTradePlan against the code

* `plan[p]` keeps `status`, whether `execution_key` is set (`locked`), `blocked_reason`
  as `T`:694 tells reasons apart, the `mt5_order_ticket` of a placed plan, and
  whether `submitting_at` is older than the 120 s of `W`:133 (`aged`).
* `flow[f]` is one request: `approveAndPlaceAiTradePlan` from the failed claim
  (`lookup`, `already`, `adopt`, `sweep`, `settle`, `reclaim`) or from the claim
  (`claimed` to `audit`), or `cancelAiTradePlanOrder`. `flow[f].key` is the claim, which
  `order` is indexed by. `GateRejects` is any of the checks that block; those on
  prices, account and market are nothing but this.
* `bg[k]` is the chain of timers of `T`:1042 for claim `k`; it dies in a crash.
* `pass[r]` is one tick: expiry, stuck submissions, placed orders, sync, each
  caught on its own. `rows` and `view` are what it has read.
* The gateway's pending-order answer is one action for each outcome of `adapter.py`:
  confirmed by ticket or as the only candidate (`PendingAnswer`), a position or a
  fill in the history (`FilledAnswer`), `CancelledAnswer`, `AmbiguousAnswer`,
  `NotConfirmedAnswer`, a refusal (`RejectedAnswer`), no answer. An order carries
  the plan's comment (`owner[k]`), not its claim: the gateway sees the orders of
  all attempts. `Candidates` is what it compares: in each of the four lists what carries the
  comment, and where nothing does, whatever agrees with the request in its fields
  (`adapter.py`:651-688, 736-770, 783-802), which may carry another plan's comment
  (`Matches`, fault `alike`). Its bounded polling is one look: its reads lie between the send and
  the answer, and `inflight` covers an order that MT5 has and does not list yet.
* `ReconcileOutcome` is `reconcileOpenTradeOutcomes` of `E`, which closes these records too.

`Faults`: `read`, `blank`, `history`, `db`, `slow` and `dealonly` as above; `torn` (an order triggers
between the lists of orders and positions), `lost` (the gateway answers with an
error although MT5 has the order), `reject` (MT5 keeps an order it refused in its
history, where it answers like a cancelled one, `adapter.py`:843-856), `alike` (another plan's order or
deal agrees in its fields), `fastend` (an order or a position ends before
its plan shows it, or while a tick takes the plan for stuck). `reject` and `alike` are what a
healthy MT5 may do as well; they are faults here so that a property can say that it needs their absence.

Left out: prices, risk, account and market checks (`DemoSizing` has the size);
`blockPlan` for an answer of success without any ticket (the gateway never gives
one); two plan ids with the same first 12 digits; order comments that a broker
truncates.

### PaperTrading and PaperBroker against the code

* A flow is an HTTP request (create, approve and execute, execute, reject) or the
  hourly scheduler; a pass is a load of the paper dashboard, which reconciles
  brackets, intraday and hourly time exits and expires what is due.
* A service call is one database transaction around calls of the broker. Its writes
  take effect at COMMIT, the broker's when it answers: `SubmitEntry` and
  `RecordExecution` are two steps, between which a fault may come. `locked(p)` is
  the `SELECT ... FOR UPDATE` that holds the proposal from the first read to COMMIT.
* `RecordExecution` adds to the position or, when the flow read no row of it before its fill was
  booked (`SELECT ... FOR UPDATE` locks nothing then), overwrites it with its own fill (`overwrite`).
* `broker` is one value, changed by the operators of `PaperBroker`: orders are named by
  their idempotency key, a key that is known answers with its first result, the two
  legs of a bracket fill at most once between them. An operator that may end in several
  ways is the set of its outcomes. `Quirks` has what the broker does only
  under a random seed or a limit price (`partial`, `reject`).
* `kind[p]` has the phase (22 manual, 25 intraday, 26 crypto, 27 hourly), which decides
  about brackets, time exits and whether a filled leg can be recorded.

`Faults`, at most `MaxFaults` in one behaviour: `rollback` (a statement fails), `lost`
(the 5 s of `engineFetch` end while the broker fills), `error`, `uncancelled` (a bracket
cannot be cancelled and the failure is swallowed), `crash` (Node), `restart` (Python).

Left out: prices beyond what the time exits and brackets ask of them, fees, notes,
views, the registry of adapters, audit rows.

### OpportunityScan against the code

* Time is counted in completed M5 candles; `CandlesPerHour` of them are an H1 candle.
* `plans` is `ai_trade_plans` by `created_at`, `held` the symbols with an order or a
  position at MT5, `processed` is `lastProcessedBoundaryMs`, `shadowed` the plans in
  `shadow_trades`.
* `scan[s]` is the local state of one scan: the snapshot of the lists, the packages in
  hand (`todo`), the questions that wait for an answer (`asking`, at most `STAGE_B_CONCURRENCY`), the result
  rows, the top candidates, and the rows still to be sized or shadowed (`left`).
  `heldSince` and `spent` only observe, for the properties: what was held since the
  scan began and which plans no longer waited when it began.
* Scores, prices and the verdict of the Risk Engine are choices, except that a held
  symbol is rejected. A failed list is an empty one, as in the code.
* A claimed plan may be placed, fail or end, and may be offered for approval again (`Release`): by a
  retry click, or by the watcher, which writes by id whatever the plan has become. `spent`
  forgets a released plan.

### ShadowTrade, Backtest, SessionStatus

`ShadowTrade` has a tape with the M1 bar of every past minute; an M5 candle is read from
it once complete. A pass reads the row, then the candles, and writes: `Expire`, `Trigger` and `Close` are
its statements, in the order of the code. Bars are stamped with the time of the broker's server,
`BrokerAhead` minutes ahead of the clock of the rows, and the code compares the two
(`stamp`). One read gives at most `MaxCandles` M5 candles (2000) and `MaxMinutes` M1 bars (400, `touching`), so
that a window may be covered in part, and the read of the M1 bars may fail. `Backtest` is `run_backtest`, `walk_forward_validate`,
`run_intraday_backtest` and `compare_intraday_timeframes`; a loop over bars is a fold.
Indicators that are more than comparisons are parameters. `SessionStatus` is
`evaluate_symbol_session` with the MT5 API (trade and quote windows day by day, each day up to the first
call that gives nothing, `ApiAnswers`), the bridge file, the M1 history and the cache
file, in this order; a week is `WeekDays` days of `DayLength` slots. Windows and bars are in server
time, `ServerAhead` slots ahead of the UTC clock the code compares them with. The cache file may be unreadable at an
evaluation, stay as it was, be truncated by its own write (`saveCached`) or lose the symbol in the save of another
(`CacheLost`). `data_status` of the answer is left out.

### Sizing and paper risk

`Mt5RiskEngine` counts prices in ticks, volumes in hundredths of a lot and compares cross
products, so that no rounding is lost. `DemoSizing` follows one plan: `Analyze`, the
re-sizing by quality of the M5 cycle, the approval, which sizes once more, and the
order, while account, quote and history move. `PaperRisk` has the decision of the four
strategies, the sizing, the controls of `risk/engine.py` and of the services, and the
second check at approval.

### AiTradePage, AnalysisPage, HourlyScanner

* The two pages are modelled with what the API does for them in one step for each request:
  how the flows behind it interleave is `AiTradePlan`'s and `EntryPlanWatcher`'s subject. What is
  split is what the page sees: the click, the request served, the answer applied, or lost.
* `AiTradePage`: `sending` is the approval in flight, `verdict` is `approveOutcome`, `poll` is
  `pollPlanStatus()` with its timer, `gaveUp` is `confirmationTimedOut`, `rows[p]` the row of a plan;
  `sent` observes which plans MT5 has an order of. An answer of success may be about an order of another plan
  whose fields agree (`order` is then FALSE in `sentOrNot`). A control is enabled by its `v-if` and
  `:disabled`, and by `Covered`: the overlay of the dialog takes the clicks. `Api` is
  everything else that moves the plans (timers, watcher, MT5, another browser).
* `AnalysisPage`: `loads` are the calls in flight of `loadSelected()`, the watchlist and the scan,
  `requests` those of `execute()`; `desk[s]` is the newest plan of a symbol, `opened` observes which
  plans have, or had, a position. Escape closes the analysis under the modal (`CloseAnalysis`).
* `HourlyScanner`: `tick[t]` has the locals of one tick, `processing` is `hourly_candle_processing`.
  Each await may fail, also after it took effect; `decisions` observes what was decided.

Left out of the pages: layout and wording, tabs and charts, the countdown of the polling (it may
give up after any answer), two equal calls in flight.

## 3. Runs

| Run | Instance | Properties |
|---|---|---|
| `entry_rows` | 1 plan, 1 flow, 2 overlapping passes, 2 claims, faults read, db, slow, fastclose, history, dealonly | `ExecutedHasOutcome`, `NoFalseFailure`, `TerminalStays` |
| `entry_once` | 1 plan, 2 flows, 1 pass, 4 claims, 2 restarts | `TradesOnce` |
| `entry_live` | 1 plan, 1 flow, 1 pass, 3 claims, 2 restarts, fairness | `PositionAccounted`, `ExecutionResolves`, `PositionRecorded`, `ClosedIsBooked`, `OrderResolved` |
| `entry_claim_overlap` | 1 plan, 2 flows, 2 passes; refuted | `AtMostOneOrder` |
| `ai_faults` | 1 pending plan, 1 request, 1 tick, 2 claims, all faults but alike and dealonly | `PlacedIsReal` |
| `ai_once` | a market and a pending plan of one symbol, 2 requests, 1 tick, 2 claims, no fault | `OneOrderPerSymbol`, `LiveIsWatched`, `TradesOnce` |
| `ai_live` | 1 pending plan, 1 request, 1 tick, 3 claims, 2 timers, 1 restart, fairness | `SubmissionResolves`, `PlacementResolves`, `RecordedClosureSynced` |
| `ai_claim_cancelled` | 1 pending plan, 2 claims, fault reject; refuted | `CancelledIsGone` |
| `paper_faults` | 2 proposals of one symbol (two BUYs of phases 22 and 27, or a BUY and a limit SELL), 2 requests, 1 dashboard load, one fault of six kinds | `Ledger`, `FilledOnce`, `ApprovedExclusive`, `DeadNeverTraded`, `NeverShort` |
| `paper_live` | 2 proposals (a phase 22 bracket, a phase 25 time exit), 1 request, 1 dashboard, partial fills, one fault of rollback, lost, restart, fairness | `NoLegAfterExit`, `BracketExitRecorded`, `TimeExitHappens`, `TradesOnce` |
| `node` | nine components one after the other, see below | `ManualCardsFresh`, `HeldNeverOffered`, `SizeFrozen`, `CycleComplete`, `NeverGuessed`, `NoLookAhead`, `RoundTripsAddUp`, `SentWithinCap`, `StatusIsRight`, `ApprovedWithinLimits`, `OneConversation`, `PlacedShownIsReal`, `ShownIsSelected`, `OpenedShownIsReal`, `DecidedOnce` |
| `sizing_claim_tier` | the sizing part of `node`; refuted | `SentWithinTier` |

`TypeOK` of the two MT5 engines, the scans and the paper flow, `LockReleased`, `RealTickets`, `WaitingIsApprovable`
and `ClosedOnRecord` are proved (section 4), and no run repeats them.

`node`. The components that share no state with the others are checked by one model,
`MCNode`, which extends them: the initial state picks one of
them, every step is a step of the one picked. Each has its own bounds: one symbol, one cycle beside one click, two M5
candles and two plans (once the second plan exists one scan runs at a time, `OneAtATime`, and the
second plan is claimed, released or ended, but neither placed nor refused, `OneOrdered`); two passes over eight minutes of tape, candles of two minutes, a server clock two minutes ahead, prices 1 to 3, three
candles and four minutes in one read, so that both caps bite (the trade is made by the end of the first
candle, the price rests between the levels after the second, and from then on one pass runs at a time, `OneTradeSoon`);
all 512 tapes of nine bars with two candidates, windows of four and five bars; six AI
answers, five accounts, two quotes; a week of three days of four slots, a server one slot ahead; nine markets,
eleven accounts, the four phases, two moves; for the AI Trade page two plans, which are two
analyses, saved in their order (`InOrder`), of which only the first may fail or close (`OneEnds`); for the AI Analysis page two symbols of which one is traded
(`OneTraded`), two analyses and one trade in flight, one candle; two ticks, one symbol and two candles
for the hourly scheduler, the second claimed while the first is worked on. The tapes end and the bounds are
reached, so that these components really stop: the run does not check deadlock.

Bounds. Plans meet only in the checks of the symbol and in the counts, so two
plans of one symbol (and, for what concerns a single plan, one) are enough.
Two flows are what it takes for a stale write; a third adds no new kind of
staleness since every write is by id and status. `MaxClaims` must exceed the
retries that a property speaks of: after a release, a second claim is the
retry, a third and a fourth come after a block and a re-analysis. When the
claims are used up the claim simply fails, and everything else goes on. Two
restarts allow one in an execution and one in the repair of it. The runs use symmetry
for safety properties only. For AI plans, two claims are an attempt and its
retry, or one for each of two plans; two requests are a click and a second click, or a
cancellation, behind it. `ai_once` needs no restart: a request without an answer
(`NoAnswer`) leaves the row as a restart does, and `ai_live` has restarts. For paper proposals,
two of one symbol are two BUYs that compete or a position and the SELL that follows
it; a lot of 2 is the smallest that fills in part; one fault leaves every retry of it
free to happen.

Fairness. `FairSpec` of the two MT5 engines: the event loop runs a started flow to its
end, every HTTP call ends by the 15 s abort of `mt5-client.ts` (so `NoAnswer` is always
possible while waiting), setInterval starts passes for ever, MT5 fills or
refuses an order it holds, and time passes. Nothing is assumed of owners, of
the schedulers' analyses, of prices, or of positions closing. Weak fairness is
enough because an enabled flow stays enabled until it moves or the process
restarts, and restarts are bounded. `FairSpec` of `PaperTrading`: a request that was started
runs on (calls of the engine end after 5 s) and the dashboard is loaded again and
again, since nothing but its loads reconciles exits.

### What holds only in part

`TradesOnce`, `PositionAccounted` and the liveness properties of the entry plans are
promised with `Faults = {}` and passes that do not overlap. The comments in the code
claim more, and the model shows why it is not so:

* overlapping passes (`entry_claim_overlap`): the release in `reconcileStuckExecutions`
  is conditional on the status but not on the key it decided about. The run shows the
  overlap only; that an order filled and closed within the grace period leaves nothing to be
  found (the next point) takes no overlap and has no run of its own;
* `fastclose`: a position that opened and closed unseen leaves no evidence, and
  the plan is traded again (`E`:740-741 says it cannot be);
* `read`: a failed position list counts as no positions (`E`:879), so that a plan
  with a live position is released;
* `history`: a failed history call (`E`:972) is the absence of a closing deal, and a
  trade that did close is written off; with `blank` even one that is still live;
* `dealonly`: the record of a trade whose answer named no order has the ticket `'0'` or none
  (`E`:765), which no list of positions contains: reconciliation writes the trade off as RECONCILIATION_FAILED
  (`E`:1012-1021) with its position live, and no read need fail. `NoFalseFailure` names this as one of its two
  reasons; what it adds is that no trade whose ticket is known is ever written off while it lives;
* `db`: a failure after a confirmed send marks the plan BLOCKED (`E`:857) while
  its position is live, and reconciliation looks at EXECUTING plans only;
* a stale row in a tick's loop (`E`:1052) expires a plan that is executing by then;
* two flows of different symbols may exceed `mt5_max_simultaneous_positions`, since
  both count before either sends; this is not stated as a property here;
* a plan written off as RECONCILIATION_FAILED is revived by a re-analysis (`E`:958), and its
  next trade is dropped by `ON CONFLICT (entry_plan_id) DO NOTHING`;
* `canTransition()` (`E`:68) is called nowhere, and two of its rules are broken:
  a re-analysis revives BLOCKED plans (intended, by the comment at `E`:268-279) and
  takes TRIGGERED back to WAITING, since `runAssistedAnalysis` has no prior status
  (against `E`:152-157).

The same for AI plans, where `OneOrderPerSymbol`, `LiveIsWatched`, `TradesOnce` and the
liveness properties are promised with `Faults = {}` and one tick at a time:

* `reject` (`ai_claim_cancelled`): the comment is the plan's, not the attempt's, so
  the refused order of a first attempt, which MT5 may keep in its history, answers for the second, and the plan is
  settled as ORDER_CANCELLED with its new order on the way. `LiveIsWatched` and `OneOrderPerSymbol` do not hold then: a
  live order has a plan that nothing looks at, and another plan of its symbol may send one. `fastend` has the
  same effect by a cancelled order;
* `alike`: where nothing carries the plan's comment, the gateway takes an order, a position or a deal of another
  plan with the same fields for this plan's. The row is then true of MT5, but of another plan's order: `PlacedIsReal` and
  `RecordedFilled` say whose it is without `alike`, and with it only that there is one. `LiveIsWatched` and `TradesOnce` do not hold;
* `dealonly`: the record of a market order has no ticket, and is written off by `E` as above; the plan becomes
  EXECUTION_FAILED with its position live;
* `fastend`: the release of `W`:164 goes by id alone; a click that adopts the order
  in between is undone, and the plan may be sent again;
* `torn`: `W`:118-123 marks a plan ORDER_CANCELLED whose order has just triggered, and the
  gateway calls one order ambiguous;
* `db`: a failed audit log makes the catch (`T`:903) write EXECUTION_FAILED over
  POSITION_OPEN;
* `lost`: an error of the gateway after the send settles the plan as EXECUTION_FAILED
  with an order alive; `slow`: an order MT5 takes up after the grace period was
  already released, and a second one is sent;
* a position adopted by `W`:155, `T`:658, `T`:714-735 or `T`:1033 has no `trade_outcomes` row (the
  comment at `W`:130 speaks of one), so that the plan stays POSITION_OPEN and blocks
  its symbol; `RecordedClosureSynced` therefore speaks of recorded trades only;
* with two requests, the answer a first one holds can be written (`T`:1294, by id)
  after a second one has adopted the order and its position has closed.

The scans: the M5 cycle takes the stored verdict of a reused plan and does not
test its status (`m5-opportunity-scan.ts`:147), so a placed plan can take one of its top
places, which is why `ManualCardsFresh` and `HeldNeverOffered` are about clicks; its preflight
asks about the volume before the re-sizing; a cycle that ends late takes
`lastProcessedBoundaryMs` back and the poll does not know that one is still running, so a candle
may be processed twice. `HeldNeverOffered` is about scans whose lists did not fail. `ManualCardsFresh` leaves out a plan
that was released while the scan ran: the code offers it again, and means to; the watcher's release, which goes by
id, may also offer a plan whose order was placed meanwhile.

Shadow trades: a BUY_LIMIT whose plan has no trigger price waits for the price 0, a
SELL_LIMIT enters at 0 at once (`numberOrNull(null)` is 0, `shadow-trade-service.ts`:14); the
expiry is tested before the candles; the replay starts with the whole entry candle, which
`NeverGuessed` takes over from the code. Three things the code does bound what a verdict means, and
`NeverGuessed` states it within them:

* bars carry server time, about three hours ahead (`routers/mt5.py`:565-577), and are compared with UTC
  `created_at` and `entered_at`: for a market entry, candles from before the entry count as after it.
  `touchesSinceEntry` is by the clock of the bars (`onTape`);
* one M5 read is capped at 2000 bars, 20 more than the time that passed: an entry further back is not replayed from its
  start (`historyInReach`);
* the M1 read is the last 400 bars: of a candle covered in part, the first minute that was read decides
  although an earlier one may have touched the other level, against "never guessed" at `shadow-trade-watcher.ts`:101
  (`minutesInReach`).

Session status: the clock compared with the schedule is UTC, and the windows are in server time
(`session_status.py`:388). `StatusIsRight` therefore says that the status is the one that was right `ServerAhead` slots ago
by the broker's clock. The cache is no promise: an unreadable or truncated file, or a save for another symbol, loses
it (`session_status.py`:145-149, 173-185), so that UNKNOWN is excluded only while a schedule is in the file and could be read.

Backtests: several purchases before one sale make `_round_trip_pnls` forget the earlier ones, so
`RoundTripsAddUp` is stated where at most one purchase is open; an exit that gapped
through its stop fills at the stop.

Sizing: the approval sizes from the flat `mt5_max_loss_per_trade` and not from the cap of the
quality tier (`sizing_claim_tier`). `SentWithinCap` allows the loss of the smallest lot where
the code does.

The paper flow: `DeadNeverTraded`, `NeverShort` and `NoLegAfterExit` hold until the first fault: a
fill whose transaction was rolled back leaves its proposal APPROVED, and it may expire or
be cancelled with the position open at the broker. A bracket leg of phase 25 or 27 that fills cannot be
recorded (`recordApprovedBracketExit` asks for `riskSnapshot.phase22`), so `BracketExitRecorded` is about
phase 22, and `NeverShort` leaves out symbols with such a leg or with a SELL proposal. It leaves out too a position
that was sold for END_OF_DAY and for MAX_HOLDING_TIME: two loads of the dashboard that overlap each
pick one of the reasons, their keys differ (`soldForBoth`), neither sees the other's sale on
record, and the broker sells twice, against the comment at `trade-execution-service.ts`:1005-1011 that
the reconciliation is safe to call repeatedly. `ApprovedWithinLimits` says that a BUY adds no
second position of its symbol only where the code means to prevent it
(`phase22_prevent_duplicate_exposure` may be off), and a short position counts as none. An
END_OF_DAY exit with a lost answer is tried again under another key, which the broker refuses;
`TimeExitHappens` counts the refusal as an end. It counts a sale that was filled in part
(`partial_fill_probability` is 0.1 by default) as an end as well, under a disjunct of its own (`soldIn`): `trade-execution-service.ts`:914 says
that the full position is sold and :1005 that any open position is closed, but an exit on record ends the matter,
and the rest stays held without a bracket. `Ledger` holds exactly until something fails, and afterwards for symbols
with one entry on record: two first fills of a symbol that are recorded at once, which takes the retry of a failed
one, lose one of them (`positions.ts`:31-40, 69-76), and never invent one. A limit entry that waits is never polled.
ProposalExpiredError rolls back the EXPIRED it has just written. The count of the proposals of
the day includes the proposal itself at its approval.

The pages. What they show is weaker than it reads, and the properties say how much of it holds:

* the result beside an analysis may be of another symbol: `execute()` writes its outcome after its
  await (`useTradeExecution.ts`:54-60) whatever was selected and reset meanwhile (`analysis.vue`:953-957);
  `OpenedShownIsReal` is about the plan of the outcome, whichever symbol is selected;
* the status request answers `allowed` for every plan that did not fail (`T`:1373-1377), and the dialog shows
  its success side for it (`ai-trade.vue`:464, 698-714): a plan that was released reads "DEMO POSITION OPENED"
  without any order. `PlacedShownIsReal` has this as its one exception. For the rest it says that the plan has, or had, an
  order, or that its row is final: the gateway may have taken another plan's order for it (`alike`), which the page
  cannot know;
* "No MT5 order was created" (`ai-trade.vue`:516) and "NO MT5 POSITION WAS OPENED" (`TradeInDemoModal.vue`:162)
  are shown for requests without an answer too, which may have reached MT5
  (`EXECUTION_UNCONFIRMED`, `REQUEST_FAILED`);
* the plan in the open dialog is the one shown, and an analysis that is answered late replaces it
  (`ai-trade.vue`:821): what is approved is the plan on display at the click, and the outcome does not say
  which it is about.

The hourly scheduler: the tick claims the candle of the bar it was given, and the decision reads the
market anew, so that the candle claimed may not be the newest that is decided on. A tick that stops after its
claim leaves the candle CLAIMED for ever: `DecidedOnce` is at most once, against the "exactly once" of
the comment at `hourly-scheduler.ts`.

## 4. Proofs

`EntryPlanWatcherProofs` proves, for all plans, flows, passes, claims, restarts
and faults: `TypeOK`, `LockReleased`, `ExecutedHasOutcome`, `RealTickets` and the
action property `TerminalStays`; `NoFalseFailure` (what is written off had closed, and its
history could not be fetched, or its record has no ticket) when `blank` is not among the faults, which includes
overlapping passes, failed reads and positions that close at any time (`WrittenOffForAReason`); and, under the same
condition, that a trade on record under the ticket of a live position is never written off
(`LiveNeverWrittenOff`).

The argument. `LockReleased` and `TerminalStays` are properties of each statement
on the row by itself (`Lawful`, one lemma per statement). `ExecutedHasOutcome` and
`RealTickets` are not inductive: `RecordExecution` and `HealPlan` write what the
flow or the pass learned some awaits ago. The strengthening `IInv` adds what they
may rely on: a claim key not handed out is unused (`KeyInv`); a flow holds a key of
its own, alone, whose order is unsent until it sends it and filled when it
records (`WorkerInv`); a pass believes only positions that were really open, and
heals only plans whose record exists (`RecInv`). These survive the steps of
others because a filled order stays filled, an owner is never rewritten
(`OrderStep`) and a record keeps its ticket (`OutcomeStep`). `NoFalseFailure` needs in
addition that a pass judges a trade only after it was missing from a list that was
answered (`Judging`), and that a closed order stays closed until the verdict
(`WriteOffInv`, `WriteOffStep`).

With `Faults = {}` and one pass at a time (`Calm`), which is when the code promises it (section 3),
and for any number of flows, claims and restarts: `AtMostOneOrder` (`SoleOrder`), the refinement
`TradesOnce`, and that every live position is on record or its plan still names its claim (`PositionsTraced`). The one
leak in it, which `PositionAccounted` excludes on one flow, is a plan that a stale flow expired while its order was under way. `OnceInv` says that the row of
a plan names the only claim that reached MT5 (`ReachedInv`), that whoever holds a claim holds the
row (`HolderInv`), and what a pass knows of the rows it selected: they are so old that no
flow has their key any more, so that the positions it reads afterwards are complete. The
runs `entry_claim_overlap` and section 3 show which of these conditions cannot be dropped. The
refinement maps the placed orders to a set whose size the abstract counter is, so each step is
an equality of cardinalities.

`AiTradePlanProofs` proves, for all plans, requests, timers, ticks, claims, restarts and every
set of faults: `TypeOK`, `WaitingIsApprovable`, `PlacedIsReal`, `ClosedOnRecord`, and that every
record of a trade is of an order that was filled, and of its plan unless fields had to be compared, or has no ticket
because the answer had none (`RecordedFilled`).

The argument. Four kinds of actor write a row, some by id alone, from evidence they found at MT5
some awaits ago, and other writers come in between. The row is true of MT5 all the same, since
evidence keeps (`Grow`): an order once accepted stays accepted, a position once filled stays filled,
a claim once handed out keeps its plan. `IInv` says what each actor knows: a request that has not
sent yet holds a claim of its own whose order is unsent, and what it is about to write it has
evidence for (`FlowOK`); a timer chain knows of its own plan (`BgOK`); what a tick has listed was
really there (`PassOK`). One lemma says that a look at MT5, torn, blank or failed, never shows more
than there is (`ReadKeeps`), one that any order moving on keeps what was known (`OrderMoves`); every
action is one of a few shapes of step over these.

With `Faults = {}` and one tick at a time (`Calm`), for any number of requests, timers, claims and
restarts: `LiveIsWatched` and the refinement `TradesOnce`; `OneOrderPerSymbol` when in addition the rule of
one active plan of a symbol is on (`OneActive`, the default). `SoleInv` says that of all claims of a plan only one is in
use, by an order, a timer chain or the request that made it; `OnceInv` adds what each
actor may conclude from not finding an order, now that lists are complete; `SymbolInv` does for the
plans of a symbol what `SoleInv` does for the claims of a plan.

`PaperTradingProofs` and `PaperTradingSafety` prove, for all proposals, symbols, requests, dashboard loads, faults
and quirks of the broker, all seven invariants of the runs (`TypeOK`, `Ledger`, `FilledOnce`, `ApprovedExclusive`,
`DeadNeverTraded`, `NoLegAfterExit`, `NeverShort`), the refinement `TradesOnce`, and that a final status stays
(`FinalStays`).

The argument. `Control` says who may write what: the row lock makes a request that creates,
approves or submits the only one on its proposal (`Exclusive`), which therefore finds the row as it
left it; a dashboard works on entries on record as filled; the broker knows a bracket only of an
entry it knows. On top of it, each invariant has its own: `OneClaim` (the exposure control of an
approval saw every claim that will commit), `LedgerOK` and `BooksOK` (position and the sum over the
orders, on record and at the broker; a flow that read no position is the first of its symbol until something fails, `First`), `Bounded` (no amount exceeds what all entries buy), `NoFault`
(until something fails, what the broker filled is on record or in the hand of the request that
asked), `DealOK` and `MatchOK` (each exit is of an entry that was filled, and of its size).
The sums are `MapThenSumSet` of the community modules. The library has no induction over finite
sets that the provers can use, so `PaperTradingProofs` derives what is needed by a smallest
counterexample: among the subsets for which a fact fails, one of least cardinality.

`ScanProofs` proves, for any number of symbols, cycles in flight, clicks, plans and
candles: `TypeOK`, `ManualCardsFresh`, `HeldNeverOffered` and the action properties `CycleComplete` and
`SizeFrozen`. The run has one cycle and one click, since two of each are out of TLC's reach; the
proofs cover the overlap of any number of both.

The argument. `Inv` says of each click that a row that counts as ready was judged
against what the click observed: its plan was not spent when it began, or was offered again since, and its
symbol not held since (`ClickOK`); of each cycle
that in its last phase every actionable plan is still to be written or has its
shadow trade (`CycleOK`). Both are predicates of one scan's local state, so a step of another
scan can disturb them only through the plans, whose ids keep their symbol, and the
shadow trades, which only grow.

It also proves `NeverGuessed` for every tape, order type, levels, candle length, set of missing bars
and number of passes. `ShadowInv` says, within the reach of the reads, of each pass that the entry and the candle it holds are those the
tape gives, and that before this candle no minute since the entry reached a level: a pass that
starts later, or wakes after another one has closed the trade, comes to the same answer, since
a completed candle never changes.

`DecisionProofs` proves `SentWithinCap`, `ApprovedWithinLimits` and `StatusIsRight` for every value of the
settings, accounts, quotes, AI answers, portfolios, markets, weeks and schedules.
`SizingInv`: every volume on record is 0 or a multiple of the step between the smallest and the
largest lot, hence its own normal form, and a verdict that allows the order bounds its loss by budget,
cap and margin of the account the approval read. `RiskInv`: a proposal that waits was sized to a
positive number and passed both lists of rules on what they were read from; the approval repeats them.
`SessionInv`: cached windows are windows of the week; the rest is the circle of the week: the
time from an instant to another lies between 0 and the length of the week (`RemainderIs`), a window matches exactly
when it covers the instant (`MatchIsCover`), across midnight and the end of the week, and the
next opening is the least distance ahead (`NextIsFirst`).

`DeskProofs` proves the five properties of the pages and the hourly scheduler, for any number of symbols,
plans, requests in flight, candles and ticks. `ShownIsSelected` is inductive: every way to select resets what
is shown. `OneConversation` is not: a dialog that is closed must not leave a poll behind, which needs
that the page stops polling when it gives up and that an approval starts with a page that has not
(`Conversation`). For what is shown of MT5, `PageInv` and `DeskInv` say that every answer, on the page, in flight
or in the rows it is read from, is true of MT5 (`AnswerOf`, `AnswerReal`, `RowReal`, `PlanReal`); since a
plan sent stays sent, a row that is final stays final (`Lasting`) and a position opened stays on record, no later step makes an answer untrue, so
that its delay does not matter (`ApprovalReal`, `ExecutionReal`, `PersistedReal`). `HourlyInv` says that two
ticks never hold the claim of one candle (`OneClaimer`) and that a tick which decides holds one that
was not decided on.

`BacktestProofs` proves `NoLookAhead` and `RoundTripsAddUp` for every tape, candidate, size of window and
timeframe, price, fee, slippage and quantity.

The argument. A run is a `FoldLeft` over bars, which the community modules define by the choice of a
function that is recursive over sets of indices. Nothing follows from such a choice until the function
is shown to exist (`FoldedExists`, by a smallest counterexample among the lengths); then `FoldRuns`
gives the *course* of a fold, the value after each bar, where each follows from the one before by
one step. Two lemmas on courses stand for induction: what the base has and each step keeps holds after every
bar (`CourseWithin`), and two courses whose steps agree up to some bar agree up to it
(`CourseUnique`). Sums, pairing of trades, drawdown and both runs are courses.

`RoundTripsAddUp` is not inductive over bars, since a run may hold a position. `Balanced` (daily) and
`BalancedDay` (intraday) say that cash is the initial cash, plus the round trips so far, minus what the
open purchase cost with its fee, and that the pairing holds exactly the purchase that is
open. For the daily run this needs that the factor model never asks for a second purchase while it holds
(`Believed`: once its last signal is executed, a model that believes it is flat is flat). That is what the moving-average model does
not give, and the reason why the property leaves it out. For `NoLookAhead`, the curve and trades up to a bar never
change after it (`DailyPast`, `IntradayPast`, and `LiquidatedPast` for the sale after the last bar), and
up to it two tapes that agree give the same course. The fill of an order on the next bar is the next bar's trade
(`SameBar`): with another next bar, the run up to this bar is still the same. A merged bar is known once its last bar
is (`MergedAlike`). The folds choose among scores, which are numbers, so that a best candidate exists
(`ScoreTyped`, `BestExists`). `BacktestInv` says that the results on record are those of the
tape.

Assumptions. `NoPlan` is no plan, `SymbolOf` is a function on plans, the bounds are
natural numbers, `Faults` are known kinds (`EntryPlanWatcher`, `AiTradePlan`, `PaperTrading`, where proposals
are finitely many); the bounds are natural numbers, a candle has minutes, and no cycle is a click
(`ScanAssumption`); the minutes of a candle are a positive number, the setups have known order types
and prices (`ShadowAssumption`); the smallest lot of a symbol is a multiple of its step, as MT5
requires, limits and prices are natural numbers (`SizingAssumption`); a portfolio may hold a
negative quantity, prices are positive (`RiskAssumption`); a week has days, a day has
slots, windows lie in them (`SessionAssumption`); the candles are a natural number
(`HoursAssumption`); money, levels, Sharpe ratios and average ranges are numbers, windows
and groups have bars, and there is a candidate (`BacktestAssumption`). TLC evaluates each of them.

Only model-checked: the pure functions of `PlanQuality` and `PlanSchema`, and all
liveness, which is out of TLAPS's reach: `ExecutionResolves`, `PositionRecorded`, `ClosedIsBooked`, `OrderResolved`,
`SubmissionResolves`, `PlacementResolves`, `RecordedClosureSynced`, `BracketExitRecorded`, `TimeExitHappens`. The
refinements are proved of the specifications without fairness, since `TradeOnce` states none.

## 5. Plan and what is not modelled

Done: the entry-plan engine, the AI trade plans, the scans with their shadow
trades, the paper flow with its hourly scheduler, sizing, session status, paper risk, backtests and
the two pages that place orders. Left to do: what the field matching of `adapter.py` compares (volume, price
and magic within 30 minutes; in the models any order of the symbol may agree, fault `alike`, and it comes into play wherever nothing
carries the plan's comment, also for orders that carry another's), and
the environment guard, as operators against a reference definition.

Not modelled, and why:

* prompts, charts and the HTTP calls to language models: their answers are inputs (`Answers` of
  `DemoSizing`, `AnswerPlan` and `AnswerNothing` of `OpportunityScan`);
* the scores computed from candles (`trade-score.ts`, `shortlist-score.ts`, the decision policy) and MT5
  strategy and charts: numerical, and used only to choose among candidates, which the models
  leave open;
* the Alpaca adapter and the market data providers: HTTP clients of external services;
* the routes that only read, authentication, reading of settings, the pages that only show, the iOS app, validation and
  command-line scripts: no state of their own beside the tables above, or tokens that
  no other component reads;
* LIMITs of 50 and 100 rows, which small instances do not reach; UUIDs that share their first 12 or
  16 digits, which order comments cannot tell apart.
