---------------------------- MODULE AnalysisPage ----------------------------
(***************************************************************************)
(* The AI Analysis page (analysis.vue, TradeInDemoModal.vue and            *)
(* useTradeExecution.ts) and what the API does for it: analyses of one     *)
(* symbol, and demo trades of the entry plan they save.                    *)
(*                                                                         *)
(* The page sends a request and goes on: the owner chooses another symbol, *)
(* the ten-second refresh fires, Escape works even under the modal, and    *)
(* answers arrive in any order or not at all.  Meanwhile the scheduler and *)
(* the watcher work on the same rows (EntryPlanRow has their statements,   *)
(* EntryPlanWatcher how they interleave; here a request is served in one   *)
(* step).                                                                  *)
(***************************************************************************)
EXTENDS FiniteSets, Naturals

CONSTANTS
  DeskSymbols,
  NoSymbol,      \* ''
  MaxLoads,      \* bound: analyses and watchlist calls in flight
  RequestSlots,  \* bound: demo trades in flight
  MaxCandleNo    \* bound: H1 candles, one plan of a symbol each

Plans == INSTANCE EntryPlanRow

VARIABLES
  chosen,       \* selectedSymbol
  analysis,     \* the symbol of plan
  analyzed,     \* hasAnalyzed
  waiting,      \* busy
  loads,        \* loadSelected(), toggleWatch() and runScan() in flight
  modal,        \* the symbol of confirmRow
  execution,    \* state of useTradeExecution()
  outcome,      \* outcome of useTradeExecution()
  activeTrade,
  requests,     \* execute() in flight
  desk,         \* desk[s]: the newest entry plan of s
  opened        \* the plans that MT5 has, or had, a position of

shownVars   == <<chosen, analysis, analyzed, waiting, loads>>
tradingVars == <<modal, execution, outcome, activeTrade, requests>>
serverVars  == <<desk, opened>>
deskVars    == <<shownVars, tradingVars, serverVars>>

-----------------------------------------------------------------------------
NoAnswer == [code |-> "none", symbol |-> NoSymbol, candle |-> 0]
NoCall   == [symbol |-> NoSymbol, answer |-> NoAnswer]

\* TradeExecutionOutcome of an order that was executed, now or before, or of
\* one that is not (failed); the page does not keep the plan it is about.
answerFor(code, symbol, candle) == [code |-> code, symbol |-> symbol, candle |-> candle]

notExecuted(symbol) == answerFor("failed", symbol, 0)

\* mutant of confirmed: an HTTP answer of any kind is a success.
answeredAtAll(answer) == TRUE

\* success and mt5Confirmed, which buildExecutionOutcomeBody() sets together.
confirmed(answer) == answer.code = "executed"

\* the overlay of the modal: nothing behind it can be clicked.
Overlaid == modal # NoSymbol

\* What of the analysis is on the page: nothing, the quick status with the
\* button to analyse, or, once analysed, the full result with the one to trade.
QuickStatus == analysis # NoSymbol /\ ~analyzed
FullResult  == analysis # NoSymbol /\ analyzed

-----------------------------------------------------------------------------
(* The API.                                                                *)

\* The newest plan of s after an analysis that computed status, in the candle
\* of that plan or in a later one.
persisted(s, status) ==
  {[plan EXCEPT !.row = Plans!persistEntryPlan(plan.row, status)] :
     plan \in {q \in {desk[s], [candle |-> desk[s].candle + 1, row |-> Plans!NoRow]} :
                 q.candle \in 1 .. MaxCandleNo}}

analyses(s) == UNION {persisted(s, status) : status \in Plans!FreshComputed}

\* executeEntryPlanById(): the claim fails, or what executeClaimedPlan() may
\* do.  After an order that MT5 did not confirm the row stays EXECUTING, after
\* an exception it is BLOCKED unless it was EXECUTED already; the order may
\* have opened a position either way.
attempts(s, plan) ==
  LET claimed == Plans!claimPlanForExecution(plan.row, 1)
      result(row, opens, answer) == [plan |-> [plan EXCEPT !.row = row], opens |-> opens, answer |-> answer]
      done(answer) == result(Plans!whenExecuting(claimed, "EXECUTED"), TRUE, answer)
  IN IF Plans!isClaimable(plan.row)
     THEN {done(answerFor("executed", s, plan.candle)), done(notExecuted(s))}
          \cup {result(row, FALSE, notExecuted(s)) : row \in {Plans!blockPlan(claimed), Plans!expirePlanRow(claimed)}}
          \cup {result(row, opens, notExecuted(s)) : opens \in BOOLEAN, row \in {claimed, Plans!blockPlan(claimed)}}
     ELSE {result(plan.row, FALSE, IF plan.row.status = "EXECUTED"
                                   THEN answerFor("ALREADY_EXECUTED", s, plan.candle) ELSE notExecuted(s))}

\* executeDemoTradeForSymbol(): refused before or after its analysis, or an
\* attempt on the plan the analysis left.
executions(s) ==
  {[plan |-> plan, opens |-> FALSE, answer |-> notExecuted(s)] :
     plan \in {desk[s]} \cup analyses(s)}
  \cup UNION {attempts(s, plan) : plan \in UNION {persisted(s, status) : status \in Plans!Claimable}}

store(s, plan, opens) ==
  /\ desk' = [desk EXCEPT ![s] = plan]
  /\ opened' = IF opens THEN opened \cup {<<s, plan.candle>>} ELSE opened

\* The H1 scheduler, a scan, the watcher or another browser: an analysis, which
\* is what a trade refused after its analysis leaves too, or a trade.
ServeElsewhere(s) ==
  /\ \E e \in executions(s) : store(s, e.plan, e.opens)
  /\ UNCHANGED <<shownVars, tradingVars>>

\* Reconciliation, expiry, and a fill that MT5 reports late.
reconciled(s) ==
  LET row == desk[s].row IN
  {Plans!releasePlan(row), Plans!expireStalePlan(row, TRUE)}
  \cup (IF <<s, desk[s].candle>> \in opened THEN {Plans!whenExecuting(row, "EXECUTED")} ELSE {})
  \cup (IF row.status = "EXECUTED" THEN {Plans!markReconciliationFailed(row)} ELSE {})

Reconcile(s) ==
  /\ \E row \in reconciled(s) : store(s, [desk[s] EXCEPT !.row = row], FALSE)
  /\ UNCHANGED <<shownVars, tradingVars>>

LateFill(s) ==
  /\ desk[s].row.status = "EXECUTING"
  /\ store(s, desk[s], TRUE)
  /\ UNCHANGED <<shownVars, tradingVars>>

-----------------------------------------------------------------------------
(* Analyses.                                                               *)

DeskInit ==
  /\ chosen = NoSymbol /\ analysis = NoSymbol /\ analyzed = FALSE /\ waiting = FALSE
  /\ loads = {}
  /\ modal = NoSymbol /\ execution = "idle" /\ outcome = NoAnswer /\ activeTrade = NoAnswer
  /\ requests = [r \in RequestSlots |-> NoCall]
  /\ desk = [s \in DeskSymbols |-> [candle |-> 0, row |-> Plans!NoRow]]
  /\ opened = {}

\* Calls sent by one click; bound: no two equal calls are in flight.
send(calls) ==
  /\ calls \cap loads = {} /\ Cardinality(loads \cup calls) <= MaxLoads
  /\ loads' = loads \cup calls
  /\ waiting' = TRUE

load(symbol, persist) == [symbol |-> symbol, persist |-> persist]

resetTrade == execution' = "idle" /\ outcome' = NoAnswer

\* loadSelected(persist) of the selected symbol.
loadSelected(persist) ==
  /\ chosen # NoSymbol
  /\ send({load(chosen, persist)})
  /\ UNCHANGED <<chosen, analysis, analyzed, serverVars>>

\* The watcher of selectedSymbol, with the calls of its assignment.
switchTo(symbol, calls) ==
  /\ chosen' = symbol
  /\ analyzed' = FALSE
  /\ modal' = NoSymbol /\ resetTrade
  /\ IF symbol = NoSymbol
     THEN analysis' = NoSymbol /\ UNCHANGED <<loads, waiting>>
     ELSE send(calls) /\ UNCHANGED analysis
  /\ UNCHANGED <<activeTrade, requests, serverVars>>

Choose(symbol) ==
  /\ ~Overlaid /\ symbol # chosen
  /\ switchTo(symbol, {load(symbol, FALSE)})

SelectFromRanked(symbol) ==
  /\ ~Overlaid
  /\ IF symbol = chosen THEN loadSelected(TRUE) /\ UNCHANGED tradingVars
     ELSE switchTo(symbol, {load(symbol, TRUE), load(symbol, FALSE)})

\* The close button, and Escape, which the modal does not stop.
CloseAnalysis ==
  /\ analysis # NoSymbol /\ chosen # NoSymbol
  /\ switchTo(NoSymbol, {})

Analyze ==
  /\ ~Overlaid /\ QuickStatus /\ ~waiting
  /\ loadSelected(TRUE)
  /\ UNCHANGED tradingVars

RefreshLightweight ==
  /\ ~waiting
  /\ loadSelected(FALSE)
  /\ UNCHANGED tradingVars

\* toggleWatch(), runScan().
CallWatchlist ==
  /\ ~Overlaid /\ ~waiting
  /\ send({load(NoSymbol, FALSE)})
  /\ UNCHANGED <<chosen, analysis, analyzed, tradingVars, serverVars>>

\* mutant of apply: the answer is applied whatever is selected by now.
applyStale(call) ==
  analysis' = call.symbol /\ analyzed' = (analyzed \/ call.persist)

\* loadSelected() after its await.
apply(call) ==
  IF call.symbol = chosen
  THEN analysis' = call.symbol /\ analyzed' = (analyzed \/ call.persist)
  ELSE UNCHANGED <<analysis, analyzed>>

LoadAnswered(call) ==
  /\ call.symbol \in DeskSymbols
  /\ apply(call)
  /\ IF call.persist THEN \E plan \in analyses(call.symbol) : store(call.symbol, plan, FALSE)
     ELSE UNCHANGED serverVars
  /\ loads' = loads \ {call} /\ waiting' = FALSE
  /\ UNCHANGED <<chosen, tradingVars>>

\* the error is shown; a call of the watchlist changes nothing modelled here.
LoadEnds(call) ==
  /\ loads' = loads \ {call} /\ waiting' = FALSE
  /\ UNCHANGED <<chosen, analysis, analyzed, tradingVars, serverVars>>

-----------------------------------------------------------------------------
(* Demo trades.                                                            *)

\* SUCCESS and FAILED stay clickable: the modal shows the result again.  Else
\* the plan was executable when it was read, which it may not be any more.
OpenTradeModal ==
  /\ ~Overlaid /\ FullResult /\ ~waiting
  /\ execution # "sending"
  /\ modal' = analysis
  /\ UNCHANGED <<shownVars, execution, outcome, activeTrade, requests, serverVars>>

ConfirmTrade(r) ==
  /\ Overlaid /\ execution = "idle" /\ requests[r] = NoCall
  /\ execution' = "sending" /\ outcome' = NoAnswer
  /\ requests' = [requests EXCEPT ![r] = [NoCall EXCEPT !.symbol = modal]]
  /\ UNCHANGED <<shownVars, modal, activeTrade, serverVars>>

TradeServed(r) ==
  /\ requests[r].symbol \in DeskSymbols /\ requests[r].answer = NoAnswer
  /\ \E e \in executions(requests[r].symbol) :
       /\ store(requests[r].symbol, e.plan, e.opens)
       /\ requests' = [requests EXCEPT ![r].answer = e.answer]
  /\ UNCHANGED <<shownVars, modal, execution, outcome, activeTrade>>

\* execute() after its await, whatever the state is by now; confirmTrade()
\* then shows the trade as active.
TradeAnswered(r) ==
  /\ requests[r] # NoCall
  /\ \E answer \in {requests[r].answer, notExecuted(requests[r].symbol)} \ {NoAnswer} :
       /\ outcome' = answer
       /\ execution' = IF confirmed(answer) THEN "success" ELSE "failed"
       /\ activeTrade' = IF confirmed(answer) THEN answer ELSE activeTrade
  /\ requests' = [requests EXCEPT ![r] = NoCall]
  /\ UNCHANGED <<shownVars, modal, serverVars>>

CancelTradeModal ==
  /\ Overlaid /\ execution = "idle"
  /\ modal' = NoSymbol /\ resetTrade
  /\ UNCHANGED <<shownVars, activeTrade, requests, serverVars>>

CloseTradeModal ==
  /\ Overlaid /\ execution \in {"success", "failed"}
  /\ modal' = NoSymbol
  /\ UNCHANGED <<shownVars, execution, outcome, activeTrade, requests, serverVars>>

AnalyzeAgain ==
  /\ Overlaid /\ execution = "failed" /\ outcome.code # "ALREADY_EXECUTED"
  /\ modal' = NoSymbol /\ resetTrade
  /\ loadSelected(TRUE)
  /\ UNCHANGED <<activeTrade, requests>>

\* Another page, viewOpenTrade() too: the state of this one is gone.
LeaveDesk ==
  /\ chosen' = NoSymbol /\ analysis' = NoSymbol /\ analyzed' = FALSE /\ waiting' = FALSE
  /\ loads' = {}
  /\ modal' = NoSymbol /\ resetTrade /\ activeTrade' = NoAnswer
  /\ requests' = [r \in RequestSlots |-> NoCall]
  /\ UNCHANGED serverVars

Owner ==
  \/ \E s \in DeskSymbols : SelectFromRanked(s)
  \/ \E s \in DeskSymbols \cup {NoSymbol} : Choose(s)
  \/ CloseAnalysis \/ Analyze \/ CallWatchlist
  \/ OpenTradeModal \/ CancelTradeModal \/ CloseTradeModal \/ AnalyzeAgain \/ LeaveDesk
  \/ \E r \in RequestSlots : ConfirmTrade(r)

DeskNext ==
  \/ Owner \/ RefreshLightweight
  \/ \E call \in loads : LoadAnswered(call) \/ LoadEnds(call)
  \/ \E r \in RequestSlots : TradeServed(r) \/ TradeAnswered(r)
  \/ \E s \in DeskSymbols : ServeElsewhere(s) \/ Reconcile(s) \/ LateFill(s)

DeskSpec == DeskInit /\ [][DeskNext]_deskVars

-----------------------------------------------------------------------------
(* Properties.                                                             *)

\* A full analysis on the page, and a confirmation of a trade, are of the
\* symbol that is selected, however late the analyses are answered ("a response
\* for a symbol the user has since closed or switched away from can never
\* overwrite the current selection/display").
ShownIsSelected ==
  /\ analyzed => analysis = chosen
  /\ Overlaid => modal = chosen /\ analyzed

\* What the modal shows in green, and the trade shown as active, is a plan
\* that MT5 has, or had, a position of: a fresh success, and a second click on
\* a plan that was executed before.
OpenedShownIsReal ==
  /\ execution = "success" \/ (execution = "failed" /\ outcome.code = "ALREADY_EXECUTED") =>
       <<outcome.symbol, outcome.candle>> \in opened
  /\ activeTrade # NoAnswer => <<activeTrade.symbol, activeTrade.candle>> \in opened
=============================================================================
