--------------------------- MODULE HourlyScanner ---------------------------
(***************************************************************************)
(* The hourly scheduler of the paper flow (hourly-scheduler.ts): every     *)
(* minute a tick asks, for each enabled symbol, for the latest closed      *)
(* candle, claims it in hourly_candle_processing and decides on it.        *)
(*                                                                         *)
(* Ticks are started by a plain interval: one that is slow overlaps the    *)
(* next.  Any call of a tick may fail, also after it took effect; the      *)
(* process may stop between two awaits.  What a decision does is           *)
(* PaperTrading's.                                                         *)
(***************************************************************************)
EXTENDS Naturals

CONSTANTS
  HourSymbols,
  Ticks,      \* bound: ticks under way at once
  MaxHour     \* bound: candles

ASSUME HoursAssumption == MaxHour \in Nat

VARIABLES
  closedHours,  \* candles 1 .. closedHours have closed, the next is forming
  enabled,     \* hourly_watchlist WHERE enabled
  processing,  \* hourly_candle_processing: the status of a candle of a symbol
  tick,        \* the locals of tick()
  decisions    \* how often the claim of a candle was decided on

hourlyVars == <<closedHours, enabled, processing, tick, decisions>>

-----------------------------------------------------------------------------
HourCandles == 1 .. MaxHour + 1

Unclaimed == "none"

\* seen: Date.now() at the start of the tick.
NoTick == [pc |-> "off", todo |-> {}, seen |-> 0, symbol |-> "none", candle |-> 0]

at(t, pc) == tick[t].pc = pc

goto(t, pc) == tick' = [tick EXCEPT ![t].pc = pc]

status(t) == processing[tick[t].symbol][tick[t].candle]

HourlyInit ==
  /\ closedHours = 0 /\ enabled = {}
  /\ processing = [s \in HourSymbols |-> [c \in HourCandles |-> Unclaimed]]
  /\ tick = [t \in Ticks |-> NoTick]
  /\ decisions = [s \in HourSymbols |-> [c \in HourCandles |-> 0]]

CloseCandle ==
  /\ closedHours < MaxHour
  /\ closedHours' = closedHours + 1
  /\ UNCHANGED <<enabled, processing, tick, decisions>>

\* addWatchlistSymbol(), setWatchlistSymbolEnabled().
EditWatchlist ==
  /\ \E s \in HourSymbols : enabled' \in {enabled \cup {s}, enabled \ {s}}
  /\ UNCHANGED <<closedHours, processing, tick, decisions>>

\* When the settings or the watchlist cannot be read, or the mode is off,
\* nothing happens.
StartTick(t) ==
  /\ at(t, "off") /\ enabled # {}
  /\ tick' = [tick EXCEPT ![t] = [NoTick EXCEPT !.pc = "next", !.todo = enabled, !.seen = closedHours]]
  /\ UNCHANGED <<closedHours, enabled, processing, decisions>>

\* The latest bar: a closed one, or one that is still forming; none, or an
\* error, skips the symbol.
FetchBar(t, s) ==
  /\ at(t, "next") /\ s \in tick[t].todo
  /\ \E c \in 0 .. closedHours + 1 :
       tick' = [tick EXCEPT ![t].todo = @ \ {s}, ![t].symbol = s, ![t].candle = c,
                            ![t].pc = IF c \in 1 .. tick[t].seen THEN "check" ELSE "next"]
  /\ UNCHANGED <<closedHours, enabled, processing, decisions>>

\* findLastProcessedCandle().
CheckLast(t) ==
  /\ at(t, "check")
  /\ \/ /\ \A c \in HourCandles :
             c >= tick[t].candle => processing[tick[t].symbol][c] = Unclaimed
        /\ goto(t, "claim")
     \/ goto(t, "next")
  /\ UNCHANGED <<closedHours, enabled, processing, decisions>>

\* mutant of claimed: ON CONFLICT DO UPDATE, which returns a row.
claimedAgain(old) == TRUE

\* whether INSERT ... ON CONFLICT DO NOTHING returns a row.
claimed(old) == old = Unclaimed

record(t, s) == processing' = [processing EXCEPT ![tick[t].symbol][tick[t].candle] = s]

\* claimCandle(): the answer may be lost with the row already inserted.
ClaimCandle(t) ==
  /\ at(t, "claim")
  /\ \/ claimed(status(t)) /\ record(t, "CLAIMED") /\ tick' \in
          {[tick EXCEPT ![t].pc = pc] : pc \in {"decide", "next"}}
     \/ UNCHANGED processing /\ goto(t, "next")
  /\ UNCHANGED <<closedHours, enabled, decisions>>

\* createHourlyDecisionAndProposal(): done, failed before or failed after its
\* transaction.
DecideCandle(t) ==
  /\ at(t, "decide")
  /\ \/ /\ decisions' = [decisions EXCEPT ![tick[t].symbol][tick[t].candle] = @ + 1]
        /\ goto(t, "analyzed") \/ goto(t, "error")
     \/ UNCHANGED decisions /\ goto(t, "error")
  /\ UNCHANGED <<closedHours, enabled, processing>>

\* markCandleAnalyzed(); when it fails the candle is marked ERROR.
MarkAnalyzed(t) ==
  /\ at(t, "analyzed")
  /\ \/ record(t, "ANALYZED") /\ (goto(t, "next") \/ goto(t, "error"))
     \/ UNCHANGED processing /\ goto(t, "error")
  /\ UNCHANGED <<closedHours, enabled, decisions>>

MarkError(t) ==
  /\ at(t, "error")
  /\ record(t, "ERROR") \/ UNCHANGED processing
  /\ goto(t, "next")
  /\ UNCHANGED <<closedHours, enabled, decisions>>

EndTick(t) ==
  /\ at(t, "next") /\ tick[t].todo = {}
  /\ tick' = [tick EXCEPT ![t] = NoTick]
  /\ UNCHANGED <<closedHours, enabled, processing, decisions>>

\* The process stops: no tick knows any more what it had claimed.
StopScheduler ==
  /\ tick' = [t \in Ticks |-> NoTick]
  /\ UNCHANGED <<closedHours, enabled, processing, decisions>>

HourlyNext ==
  \/ CloseCandle \/ EditWatchlist \/ StopScheduler
  \/ \E t \in Ticks : \/ StartTick(t) \/ CheckLast(t) \/ ClaimCandle(t) \/ DecideCandle(t)
                      \/ MarkAnalyzed(t) \/ MarkError(t) \/ EndTick(t)
                      \/ \E s \in HourSymbols : FetchBar(t, s)

HourlySpec == HourlyInit /\ [][HourlyNext]_hourlyVars

-----------------------------------------------------------------------------
\* "detects a newly closed 1H candle per watchlist symbol and evaluates it
\* exactly once": whatever overlaps, fails or restarts, a candle is decided on
\* at most once, never before it has closed, and it is recorded as ANALYZED
\* only if it was decided on.
DecidedOnce ==
  \A s \in HourSymbols, c \in HourCandles :
    /\ decisions[s][c] <= 1
    /\ processing[s][c] # Unclaimed => c <= closedHours
    /\ processing[s][c] = Unclaimed => decisions[s][c] = 0
    /\ processing[s][c] = "ANALYZED" => decisions[s][c] = 1
=============================================================================
