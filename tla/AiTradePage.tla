---------------------------- MODULE AiTradePage ----------------------------
(***************************************************************************)
(* The AI Trade page (ai-trade.vue) and the answers it gets from the API:  *)
(* analyses, scans, the confirmation dialog, one approval and the polling  *)
(* of its outcome.                                                         *)
(*                                                                         *)
(* The page never waits: between a request and its answer the owner clicks *)
(* whatever is enabled and not covered by the dialog, answers arrive in    *)
(* any order or not at all, and the API's own flows, or another browser,   *)
(* move the plans (AiTradePlanRow has their statements, AiTradePlan how    *)
(* they interleave; here an approval is answered in one step).             *)
(***************************************************************************)
EXTENDS FiniteSets, Naturals

CONSTANTS
  PageSymbols,
  PagePlans,   \* ids of ai_trade_plans; bounds the analyses
  Nobody       \* null, for a symbol or a plan id

Row == INSTANCE AiTradePlanRow

VARIABLES
  configured,  \* providerConfigured # false
  selected,    \* selectedSymbol
  cards,       \* where a symbol is: scanResults, scanOtherIdeas, neither
  scanning,
  busy,
  asking,      \* the analyses in flight
  shown,       \* plan
  dialog,      \* showConfirm
  sending,     \* the approval in flight (approving)
  verdict,     \* approveOutcome
  poll,        \* pollPlanStatus(): a request in flight, or pollTimer
  gaveUp,      \* confirmationTimedOut
  rows,        \* rows[p]: the row of the plan
  sent         \* the plans that MT5 has, or had, an order of

analysisVars == <<configured, selected, cards, scanning, busy, asking, shown>>
approvalVars == <<dialog, sending, verdict, poll, gaveUp>>
pageVars     == <<analysisVars, approvalVars, rows, sent>>

-----------------------------------------------------------------------------
NoCards   == [s \in PageSymbols |-> "none"]
NoDetail  == [plan |-> Nobody, symbol |-> Nobody, placeable |-> FALSE]
Nothing   == [code |-> "none", allowed |-> FALSE, of |-> Nobody, status |-> Row!Absent]
NoRequest == [of |-> Nobody, answer |-> Nothing]
PollOff   == [pc |-> "off", of |-> Nobody, answer |-> Nothing]

\* AiPlanExecutionOutcome; the page does not keep the plan it is about (of).
outcomeOf(p, allowed, code, row) ==
  [code |-> code, allowed |-> allowed, of |-> p, status |-> row.status]

requestFailed(p) == outcomeOf(p, FALSE, "REQUEST_FAILED", Row!NoRow)

Confirming == verdict.code = "PENDING_CONFIRMATION"

\* the overlay of the dialog: nothing behind it can be clicked.
Covered == dialog /\ shown # NoDetail

\* the dialog says that the order is placed, or the position open.
SaysPlaced == Covered /\ verdict # Nothing /\ ~Confirming /\ verdict.allowed

-----------------------------------------------------------------------------
(* The API.                                                                *)

submitting == [Row!Unlocked("PENDING_ORDER_SUBMITTING") EXCEPT !.locked = TRUE]

\* the row and the answer of an approval, after which MT5 has an order or not.
sentOrNot(row, answer) == {[row |-> row, order |-> order, answer |-> answer] : order \in BOOLEAN}

ended(p, row) == outcomeOf(p, FALSE, row.status, row)

\* An order was sent, or may have been, and MT5 does not say yet.
unconfirmed(p) ==
  sentOrNot(submitting, outcomeOf(p, TRUE, "PENDING_CONFIRMATION", submitting))
  \cup sentOrNot(submitting, outcomeOf(p, FALSE, "EXECUTION_UNCONFIRMED", submitting))

\* approveAndPlaceAiTradePlan() of a plan it could claim: refused before the
\* send, placed, settled although an order was sent, unconfirmed, or an
\* exception, which is answered with an error.  The gateway may have matched
\* an object of another plan by its fields and call this one placed: order is
\* then FALSE if MT5 has none of it.
refusedRows == {Row!Unlocked("PLAN_EXPIRED"), Row!Unlocked("RISK_BLOCKED"), Row!failed("other")}
placedRows  == {Row!placed(1), Row!opened}
settledRows == {Row!Unlocked("ORDER_CANCELLED"), Row!failed("other"), Row!failed("PENDING_ORDER_NOT_CONFIRMED"),
                Row!failed("PENDING_ORDER_CONFIRMATION_AMBIGUOUS")}

claimedAnswers(p) ==
  {[row |-> row, order |-> FALSE, answer |-> ended(p, row)] : row \in refusedRows}
  \cup (UNION {sentOrNot(row, outcomeOf(p, TRUE, "null", row)) : row \in placedRows})
  \cup (UNION {sentOrNot(row, ended(p, row)) : row \in settledRows})
  \cup unconfirmed(p)
  \cup sentOrNot(Row!failed("other"), requestFailed(p))

\* An order or position with the comment of plan p; the UPDATE that says so of
\* a submitting plan misses a row that has left that status meanwhile.
foundAtMt5(p) ==
  UNION {{[row |-> row, order |-> FALSE, answer |-> outcomeOf(p, TRUE, "ALREADY_PLACED", found)] :
            row \in {found} \cup {r \in {rows[p]} : r.status = "PENDING_ORDER_SUBMITTING"}} : found \in placedRows}

\* mutant of alreadyPlaced: any order of the symbol is taken for the plan's.
placedOfSymbol(p) == foundAtMt5(p)

alreadyPlaced(p) == IF p \in sent THEN foundAtMt5(p) ELSE {}

notClaimable(p) ==
  [row |-> rows[p], order |-> FALSE, answer |-> outcomeOf(p, FALSE, "NOT_CLAIMABLE", rows[p])]

\* An inconclusive attempt is looked up at MT5 first; what is not found is
\* released and claimed again, unless it was ambiguous.
approvals(p) ==
  IF Row!isApprovable(rows[p]) THEN claimedAnswers(p)
  ELSE IF rows[p].status = "PENDING_ORDER_SUBMITTING" THEN alreadyPlaced(p) \cup {notClaimable(p)}
  ELSE IF rows[p] = Row!failed("PENDING_ORDER_NOT_CONFIRMED") THEN alreadyPlaced(p) \cup claimedAnswers(p)
  ELSE IF rows[p] = Row!failed("PENDING_ORDER_CONFIRMATION_AMBIGUOUS")
       THEN alreadyPlaced(p) \cup {notClaimable(p)}
  ELSE {notClaimable(p)}

settle(p, a) ==
  /\ rows' = [rows EXCEPT ![p] = a.row]
  /\ sent' = IF a.order THEN sent \cup {p} ELSE sent

\* getAiTradePlanStatus().
statusOf(p) ==
  LET row == rows[p] IN
  CASE row.status = Row!Absent -> outcomeOf(p, FALSE, "PLAN_NOT_FOUND", row)
    [] row.status = "PENDING_ORDER_SUBMITTING" -> outcomeOf(p, TRUE, "PENDING_CONFIRMATION", row)
    [] row.status \in {"RISK_BLOCKED", "EXECUTION_FAILED", "ORDER_CANCELLED", "PLAN_EXPIRED"} ->
         outcomeOf(p, FALSE, row.status, row)
    [] OTHER -> outcomeOf(p, TRUE, "null", row)

\* What timers, ticks of the watcher and MT5 do with a plan by themselves:
\* they know an order by its comment, and read a list that fails as empty.
moved(p) ==
  LET row == rows[p] IN
  CASE row.status = "PENDING_ORDER_SUBMITTING" ->
         {Row!failed("PENDING_ORDER_NOT_CONFIRMED"), Row!released}
         \cup (IF p \in sent THEN {Row!placed(1), Row!opened} ELSE {})
    [] row.status = "PENDING_ORDER_PLACED" ->
         {Row!opened, Row!Unlocked("ORDER_CANCELLED"), Row!Unlocked("PLAN_EXPIRED")}
    [] row.status = "POSITION_OPEN" -> {Row!Unlocked("POSITION_CLOSED"), Row!failed("other")}
    [] row.status = "WAITING_FOR_APPROVAL" -> {Row!expireUnapproved(row, TRUE)}
    [] OTHER -> {}

Advance(p) ==
  /\ \E row \in moved(p) : rows' = [rows EXCEPT ![p] = row]
  /\ UNCHANGED <<analysisVars, approvalVars, sent>>

OrderArrives(p) ==
  /\ rows[p].status = "PENDING_ORDER_SUBMITTING"
  /\ sent' = sent \cup {p}
  /\ UNCHANGED <<analysisVars, approvalVars, rows>>

\* An approval from another browser, or one whose answer nobody waits for.
ApproveElsewhere(p) ==
  /\ rows[p] # Row!NoRow
  /\ \E a \in approvals(p) : settle(p, a)
  /\ UNCHANGED <<analysisVars, approvalVars>>

-----------------------------------------------------------------------------
(* Analyses and scans.                                                     *)

PageInit ==
  /\ configured = TRUE /\ selected = Nobody /\ cards = NoCards /\ scanning = FALSE
  /\ busy = FALSE /\ asking = {} /\ shown = NoDetail
  /\ dialog = FALSE /\ sending = NoRequest /\ verdict = Nothing /\ poll = PollOff /\ gaveUp = FALSE
  /\ rows = [p \in PagePlans |-> Row!NoRow]
  /\ sent = {}

\* analyze(); place: the caller is placeFromScan().  Bound: no two equal ones
\* are in flight, and each could save a plan.
askFor(symbol, place) ==
  LET a == [symbol |-> symbol, place |-> place] IN
  /\ ~Covered /\ a \notin asking
  /\ Cardinality(asking) < Cardinality({p \in PagePlans : rows[p] = Row!NoRow})
  /\ asking' = asking \cup {a}
  /\ selected' = symbol /\ busy' = TRUE /\ shown' = NoDetail
  /\ UNCHANGED <<configured, cards, scanning, approvalVars, rows, sent>>

SelectSymbol(symbol) ==
  /\ ~Covered
  /\ selected' = symbol
  /\ UNCHANGED <<configured, cards, scanning, busy, asking, shown, approvalVars, rows, sent>>

AnalyzeSelected == selected # Nobody /\ ~busy /\ configured /\ askFor(selected, FALSE)

ViewCard(symbol)  == cards[symbol] # "none" /\ askFor(symbol, FALSE)
PlaceCard(symbol) == cards[symbol] = "best" /\ ~scanning /\ askFor(symbol, TRUE)

\* placeFromScan() goes on when its analysis is over, with the plan that is
\* shown then.
afterAnalysis(a) ==
  /\ asking' = asking \ {a}
  /\ busy' = FALSE
  /\ dialog' = (dialog \/ (a.place /\ shown'.placeable))

\* WAIT has no plan; a plan may be blocked by the Risk Engine; the market may
\* be closed.
AnalysisAnswered(a) ==
  /\ \/ shown' = [NoDetail EXCEPT !.symbol = a.symbol] /\ UNCHANGED rows
     \/ \E p \in PagePlans, s \in {"WAITING_FOR_APPROVAL", "RISK_BLOCKED"}, placeable \in BOOLEAN :
          /\ rows[p] = Row!NoRow
          /\ placeable => s = "WAITING_FOR_APPROVAL"
          /\ rows' = [rows EXCEPT ![p] = Row!Unlocked(s)]
          /\ shown' = [plan |-> p, symbol |-> a.symbol, placeable |-> placeable]
  /\ afterAnalysis(a)
  /\ UNCHANGED <<configured, selected, cards, scanning, sending, verdict, poll, gaveUp, sent>>

AnalysisFails(a) ==
  /\ configured' \in {configured, FALSE}
  /\ shown' = shown
  /\ afterAnalysis(a)
  /\ UNCHANGED <<selected, cards, scanning, sending, verdict, poll, gaveUp, rows, sent>>

FindBestTrades ==
  /\ ~Covered /\ ~scanning /\ configured
  /\ scanning' = TRUE /\ cards' = NoCards
  /\ UNCHANGED <<configured, selected, busy, asking, shown, approvalVars, rows, sent>>

ScanAnswered ==
  /\ scanning
  /\ \/ cards' \in [PageSymbols -> {"best", "other", "none"}] /\ UNCHANGED configured
     \/ configured' \in {configured, FALSE} /\ UNCHANGED cards
  /\ scanning' = FALSE
  /\ UNCHANGED <<selected, busy, asking, shown, approvalVars, rows, sent>>

-----------------------------------------------------------------------------
(* The dialog, the approval and its outcome.                               *)

OpenDialog ==
  /\ ~Covered /\ shown.placeable /\ sending = NoRequest
  /\ dialog' = TRUE
  /\ UNCHANGED <<analysisVars, sending, verdict, poll, gaveUp, rows, sent>>

\* The button stays enabled while the approval is in flight.
CancelDialog ==
  /\ Covered /\ verdict = Nothing
  /\ dialog' = FALSE
  /\ UNCHANGED <<analysisVars, sending, verdict, poll, gaveUp, rows, sent>>

\* mutant of ConfirmPlace: the button is shown next to an outcome too.
ConfirmAgain ==
  /\ Covered /\ sending = NoRequest /\ shown.plan \in PagePlans
  /\ sending' = [of |-> shown.plan, answer |-> Nothing]
  /\ gaveUp' = FALSE
  /\ UNCHANGED <<analysisVars, dialog, verdict, poll, rows, sent>>

ConfirmPlace ==
  /\ Covered /\ verdict = Nothing /\ sending = NoRequest
  /\ shown.plan \in PagePlans
  /\ sending' = [of |-> shown.plan, answer |-> Nothing]
  /\ gaveUp' = FALSE
  /\ UNCHANGED <<analysisVars, dialog, verdict, poll, rows, sent>>

\* the API handles the request, or refuses or loses it.
ApproveServed ==
  /\ sending # NoRequest /\ sending.answer = Nothing
  /\ \E a \in approvals(sending.of) :
       /\ settle(sending.of, a)
       /\ sending' = [sending EXCEPT !.answer = a.answer]
  /\ UNCHANGED <<analysisVars, dialog, verdict, poll, gaveUp>>

\* confirmPlace() after its await: the answer, or REQUEST_FAILED.
ApproveAnswered ==
  /\ sending # NoRequest
  /\ verdict' \in {sending.answer, requestFailed(sending.of)} \ {Nothing}
  /\ poll' = IF verdict'.code = "PENDING_CONFIRMATION"
             THEN [PollOff EXCEPT !.pc = "asking", !.of = sending.of] ELSE poll
  /\ sending' = NoRequest
  /\ UNCHANGED <<analysisVars, dialog, gaveUp, rows, sent>>

PollServed ==
  /\ poll.pc = "asking" /\ poll.answer = Nothing
  /\ poll' = [poll EXCEPT !.answer = statusOf(poll.of)]
  /\ UNCHANGED <<analysisVars, dialog, sending, verdict, gaveUp, rows, sent>>

\* the answer, or a failure, which leaves the outcome as it is; then again,
\* until the deadline.
PollAnswered ==
  /\ poll.pc = "asking"
  /\ verdict' \in {poll.answer, verdict} \ {Nothing}
  /\ IF verdict'.code # "PENDING_CONFIRMATION" THEN poll' = PollOff /\ UNCHANGED gaveUp
     ELSE \/ poll' = [PollOff EXCEPT !.pc = "timer", !.of = poll.of] /\ UNCHANGED gaveUp
          \/ poll' = PollOff /\ gaveUp' = TRUE
  /\ UNCHANGED <<analysisVars, dialog, sending, rows, sent>>

PollTimer ==
  /\ poll.pc = "timer"
  /\ poll' = IF Confirming THEN [poll EXCEPT !.pc = "asking"] ELSE PollOff
  /\ UNCHANGED <<analysisVars, dialog, sending, verdict, gaveUp, rows, sent>>

\* Confirming can be closed once the polling has ended.
CanClose == Covered /\ verdict # Nothing /\ (Confirming => gaveUp)

\* closeConfirm() stops the timer; a status request in flight it does not.
CloseDialog ==
  /\ CanClose
  /\ dialog' = FALSE /\ verdict' = Nothing
  /\ poll' = IF poll.pc = "timer" THEN PollOff ELSE poll
  /\ UNCHANGED <<analysisVars, sending, gaveUp, rows, sent>>

\* Another page and back: the state of this one is gone; the API says whether
\* a provider is configured.
LeavePage ==
  /\ selected' = Nobody /\ cards' = NoCards /\ scanning' = FALSE /\ busy' = FALSE /\ asking' = {}
  /\ shown' = NoDetail /\ dialog' = FALSE /\ sending' = NoRequest /\ verdict' = Nothing
  /\ poll' = PollOff /\ gaveUp' = FALSE /\ configured' \in BOOLEAN
  /\ UNCHANGED <<rows, sent>>

Api == \E p \in PagePlans : Advance(p) \/ OrderArrives(p) \/ ApproveElsewhere(p)

PageNext ==
  \/ Api \/ ApproveServed \/ PollServed
  \/ \E s \in PageSymbols : SelectSymbol(s) \/ ViewCard(s) \/ PlaceCard(s)
  \/ AnalyzeSelected \/ FindBestTrades \/ ScanAnswered
  \/ \E a \in asking : AnalysisAnswered(a) \/ AnalysisFails(a)
  \/ OpenDialog \/ CancelDialog \/ ConfirmPlace \/ ApproveAnswered
  \/ PollAnswered \/ PollTimer \/ CloseDialog \/ LeavePage

PageSpec == PageInit /\ [][PageNext]_pageVars

-----------------------------------------------------------------------------
(* Properties.                                                             *)

\* One approval at a time: none is under way while the outcome of the last one
\* is on the page or still polled for, and the polling is about the approval
\* whose outcome is shown as unconfirmed ("No duplicate order will be sent
\* while this is in progress").  And the spinner ends: while the outcome is
\* unconfirmed the page polls, or has given up and can be closed.
OneConversation ==
  /\ sending # NoRequest => verdict = Nothing /\ poll = PollOff
  /\ poll # PollOff => Confirming /\ verdict.of = poll.of
  /\ Confirming /\ ~gaveUp => poll # PollOff

\* No approval takes the plan up again.
Finished(row) == row.status \in Row!Settled \cup {"PENDING_ORDER_PLACED"} \/ row = Row!failed("other")

\* Whatever a dialog says was placed or opened is about a plan that MT5 has, or
\* had, an order of, or one that the gateway took another's object for, whose
\* row is as final as if it had been placed - and "ALREADY PLACED IN MT5" only
\* about its own order.  The exception is a plan that the watcher released
\* while the page polled for it: getAiTradePlanStatus() allows it, and the page
\* shows it as a position opened.
PlacedShownIsReal ==
  SaysPlaced =>
    /\ verdict.of \in sent \/ Finished(rows[verdict.of]) \/ verdict.status = "WAITING_FOR_APPROVAL"
    /\ verdict.code = "ALREADY_PLACED" => verdict.of \in sent
=============================================================================
