--------------------------- MODULE ShadowTrade ---------------------------
(***************************************************************************)
(* A shadow trade, from the scan that creates it                           *)
(* (shadow-trade-service.ts) to the verdict of the watcher that replays    *)
(* price history over it (shadow-trade-watcher.ts).  No order is ever      *)
(* sent: the trade enters and exits where the candles say it would have.   *)
(*                                                                         *)
(* Time is counted in minutes; tape holds the M1 bar of every past minute. *)
(* The M5 candle c stands for CandleMinutes minutes from c*CandleMinutes   *)
(* on and can be read once it is complete.  Its time is that of the        *)
(* broker's server, which runs BrokerAhead minutes ahead of the process    *)
(* (routers/mt5.py:565-577), and the code compares the two.  Passes of the *)
(* watcher overlap: its interval does not wait for the pass before.        *)
(***************************************************************************)
EXTENDS Integers, Sequences, FiniteSets

CONSTANTS
  Passes,          \* passes of the watcher that can be in flight at once
  CandleMinutes,   \* minutes of an M5 candle
  BrokerAhead,     \* minutes by which the times of the bars run ahead of the process
  Buffer,          \* candles read beyond the time that passed (20)
  MaxCandles,      \* M5 candles one read gives at most (2000)
  MaxMinutes,      \* M1 bars one read gives (400)
  MaxMinute,       \* bound: length of the tape
  Expiry,          \* minutes from creation to plan_expiry
  MaxHolding,      \* m5_shadow_max_holding_minutes
  TapePrices,      \* prices of the tape
  Bars,            \* pairs low, high an M1 bar can have
  Setups           \* plans a shadow trade is made from, as parseTradeAIPlan() lets
                   \* them through: [side, order, entry, trigger, stop, target]

Orders == {"MARKET", "BUY_LIMIT", "SELL_LIMIT", "BUY_STOP", "SELL_STOP"}

ASSUME ShadowAssumption ==
  /\ CandleMinutes \in Nat \ {0} /\ {MaxMinute, Expiry, MaxHolding} \subseteq Nat
  /\ {BrokerAhead, Buffer, MaxCandles, MaxMinutes} \subseteq Nat
  /\ TapePrices \subseteq Int /\ Bars \subseteq Int \X Int /\ Bars # {}
  /\ Setups \subseteq [side : {"BUY", "SELL"}, order : Orders, entry : Int, trigger : Int,
                       stop : Int, target : Int]

\* SQL NULL.
SqlNull == -1

VARIABLES
  tape,    \* the M1 bars so far
  trade,   \* the row of shadow_trades
  pass     \* the local state of every pass

shadowVars == <<tape, trade, pass>>

now == Len(tape)

(***************************************************************************)
(* Creation                                                                *)
(***************************************************************************)

\* numberOrNull(): Number(null) is 0, which is finite, so a null column is
\* copied as the price 0.
numberOrNull(v) == IF v = SqlNull THEN 0 ELSE v

NoTrade == [status |-> "none"]

\* createShadowTradesForCycle(): ENTER_NOW enters at the executable side of the
\* quote, WAIT_FOR_ENTRY waits for its level.
created(p, quote) ==
  [status |-> IF p.order = "MARKET" THEN "ENTERED" ELSE "AWAITING_TRIGGER",
   side |-> p.side, order |-> p.order, stop |-> p.stop, target |-> p.target,
   planned |-> numberOrNull(p.entry), trigger |-> numberOrNull(p.trigger),
   at |-> now, exit |-> SqlNull, candle |-> SqlNull,
   entry |-> IF p.order = "MARKET" THEN quote ELSE SqlNull,
   since |-> IF p.order = "MARKET" THEN now ELSE SqlNull]

\* Between the levels of the plan: the scan quotes the price it plans from.
quotes(p) == {q \in TapePrices : (p.stop < q /\ q < p.target) \/ (p.target < q /\ q < p.stop)}

CreateTrade ==
  /\ trade = NoTrade
  /\ \E p \in Setups : \E q \in quotes(p) : trade' = created(p, q)
  /\ UNCHANGED <<tape, pass>>

(***************************************************************************)
(* Candles                                                                 *)
(***************************************************************************)

Final == {"CLOSED", "EXPIRED_NOT_TRIGGERED"}

\* No minute is read after the verdict.
Minute ==
  /\ now < MaxMinute /\ trade.status \notin Final
  /\ \E b \in Bars : tape' = Append(tape, b)
  /\ UNCHANGED <<trade, pass>>

begins(c) == c * CandleMinutes

\* The time on the bar.
stamp(c) == begins(c) + BrokerAhead

\* Candles whose every minute is over; the gateway reads from position 1.
completed == {c \in 0 .. MaxMinute : begins(c + 1) <= now}

\* barsNeededSince(): the candles of the time that passed and a few more.
barsNeeded(t) ==
  LET elapsed == IF t <= now THEN now - t ELSE 0
      wanted  == (elapsed + CandleMinutes - 1) \div CandleMinutes + Buffer
  IN IF wanted <= MaxCandles THEN wanted ELSE MaxCandles

\* getMt5Bars(...).filter(bar => bar.time * 1000 >= sinceMs)
candlesSince(t) ==
  {c \in completed : c >= now \div CandleMinutes - barsNeeded(t) /\ stamp(c) >= t}

minutesOf(c) == {m \in DOMAIN tape : begins(c) < m /\ m <= begins(c + 1)}

reachedBelow(M, level) == \E m \in M : tape[m][1] <= level

reachedAbove(M, level) == \E m \in M : tape[m][2] >= level

earliest(S) == CHOOSE c \in S : \A d \in S : c <= d

(***************************************************************************)
(* Waiting for the trigger                                                 *)
(***************************************************************************)

\* triggerLevel(): num() reads the stored 0 of a missing trigger price as a
\* number, so the planned entry behind ?? is never reached.
triggerLevel(r) == r.trigger

isTriggeredByCandle(r, c) ==
  IF r.order \in {"BUY_LIMIT", "SELL_STOP"}
  THEN reachedBelow(minutesOf(c), triggerLevel(r))
  ELSE reachedAbove(minutesOf(c), triggerLevel(r))

Away == [pc |-> "idle"]

BeginPass(w) ==
  /\ pass[w] = Away /\ trade # NoTrade
  /\ pass' = [pass EXCEPT ![w] =
       [pc |-> IF trade.status = "AWAITING_TRIGGER" THEN "expiry" ELSE "entered"]]
  /\ UNCHANGED <<tape, trade>>

expired == trade.at + Expiry <= now

\* The expiry is tested before any candle is read.
Expire(w) ==
  /\ pass[w].pc = "expiry" /\ expired
  /\ trade' = IF trade.status = "AWAITING_TRIGGER"
              THEN [trade EXCEPT !.status = "EXPIRED_NOT_TRIGGERED"] ELSE trade
  /\ pass' = [pass EXCEPT ![w] = [pc |-> "entered"]]
  /\ UNCHANGED tape

NotExpired(w) ==
  /\ pass[w].pc = "expiry" /\ ~expired
  /\ pass' = [pass EXCEPT ![w] = [pc |-> "trigger"]]
  /\ UNCHANGED <<tape, trade>>

triggering == {c \in candlesSince(trade.at) : isTriggeredByCandle(trade, c)}

\* The first candle that reaches the level enters the trade, at the level and at
\* the candle's opening time, unless another pass has moved it.
Trigger(w) ==
  /\ pass[w].pc = "trigger"
  /\ trade' = IF triggering # {} /\ trade.status = "AWAITING_TRIGGER"
              THEN [trade EXCEPT !.status = "ENTERED", !.entry = triggerLevel(trade),
                                 !.since = stamp(earliest(triggering))]
              ELSE trade
  /\ pass' = [pass EXCEPT ![w] = [pc |-> "entered"]]
  /\ UNCHANGED tape

\* getMt5Bars() failed: the row is left as it is.
NoBars(w) ==
  /\ pass[w].pc \in {"trigger", "replay"}
  /\ pass' = [pass EXCEPT ![w] = IF pass[w].pc = "trigger" THEN [pc |-> "entered"] ELSE Away]
  /\ UNCHANGED <<tape, trade>>

(***************************************************************************)
(* Replaying an entered trade                                              *)
(***************************************************************************)

SelectEntered(w) ==
  /\ pass[w].pc = "entered"
  /\ pass' = [pass EXCEPT ![w] = IF trade.status = "ENTERED" THEN [pc |-> "replay"] ELSE Away]
  /\ UNCHANGED <<tape, trade>>

hitStop(M) ==
  IF trade.side = "BUY" THEN reachedBelow(M, trade.stop) ELSE reachedAbove(M, trade.stop)

hitTarget(M) ==
  IF trade.side = "BUY" THEN reachedAbove(M, trade.target) ELSE reachedBelow(M, trade.target)

touches(M) == hitStop(M) \/ hitTarget(M)

\* Candles that end the replay: a touch of either level, or the time limit.
ending == {c \in candlesSince(trade.since) :
             touches(minutesOf(c)) \/ stamp(c) >= trade.since + MaxHolding}

verdictOf(M) ==
  CASE hitStop(M) /\ hitTarget(M) -> "AMBIGUOUS_OUTCOME"
    [] hitStop(M) /\ ~hitTarget(M) -> "STOP_LOSS"
    [] ~hitStop(M) /\ hitTarget(M) -> "TAKE_PROFIT"
    [] OTHER -> "TIME_EXIT"

\* evaluateEnteredTrade(): the first ending candle decides.
Replay(w) ==
  /\ pass[w].pc = "replay"
  /\ pass' = [pass EXCEPT ![w] =
       IF ending = {} THEN Away
       ELSE LET c == earliest(ending)
                v == verdictOf(minutesOf(c))
            IN IF v = "AMBIGUOUS_OUTCOME" THEN [pc |-> "minutes", candle |-> c]
               ELSE [pc |-> "close", candle |-> c, exit |-> v]]
  /\ UNCHANGED <<tape, trade>>

\* The minutes of the candle among the last M1 bars that touch a level.
touching(c) == {m \in minutesOf(c) : m > now - MaxMinutes /\ touches({m})}

\* Mutant: a candle that holds both levels counts as a loss.
disambiguateAsLoss(c) ==
  IF touching(c) = {} THEN "AMBIGUOUS_OUTCOME" ELSE "STOP_LOSS"

\* disambiguateWithM1(): the first minute read that touches a level.
disambiguateWithM1(c) ==
  IF touching(c) = {} THEN "AMBIGUOUS_OUTCOME" ELSE verdictOf({earliest(touching(c))})

\* The read of the M1 bars may fail.
ReadMinutes(w) ==
  /\ pass[w].pc = "minutes"
  /\ \E v \in {disambiguateWithM1(pass[w].candle), "AMBIGUOUS_OUTCOME"} :
       pass' = [pass EXCEPT ![w] = [pc |-> "close", candle |-> pass[w].candle, exit |-> v]]
  /\ UNCHANGED <<tape, trade>>

Close(w) ==
  /\ pass[w].pc = "close"
  /\ trade' = IF trade.status = "ENTERED"
              THEN [trade EXCEPT !.status = "CLOSED", !.exit = pass[w].exit,
                                 !.candle = pass[w].candle]
              ELSE trade
  /\ pass' = [pass EXCEPT ![w] = Away]
  /\ UNCHANGED tape

\* A statement fails or the process restarts: the passes in flight are gone.
Abandon(w) ==
  /\ pass[w] # Away
  /\ pass' = [pass EXCEPT ![w] = Away]
  /\ UNCHANGED <<tape, trade>>

ShadowInit ==
  /\ tape = <<>> /\ trade = NoTrade /\ pass = [w \in Passes |-> Away]

Pass(w) ==
  \/ BeginPass(w) \/ Expire(w) \/ NotExpired(w) \/ Trigger(w)
  \/ SelectEntered(w) \/ Replay(w) \/ ReadMinutes(w) \/ Close(w)

ShadowNext ==
  \/ CreateTrade \/ Minute
  \/ \E w \in Passes : Pass(w) \/ NoBars(w) \/ Abandon(w)

ShadowSpec == ShadowInit /\ [][ShadowNext]_shadowVars

(***************************************************************************)
(* Properties                                                              *)
(***************************************************************************)

\* The minute of the tape whose bar the code takes for one of time t.
onTape(t) == IF t >= BrokerAhead THEN t - BrokerAhead ELSE 0

\* The minutes from the entry candle on in which a level was touched.
touchesSinceEntry ==
  {m \in DOMAIN tape :
     /\ m > ((onTape(trade.since) + CandleMinutes - 1) \div CandleMinutes) * CandleMinutes
     /\ touches({m})}

\* One read of M5 candles reaches back to the entry.
historyInReach ==
  LET span == now - trade.since + BrokerAhead
  IN /\ span <= MaxCandles * CandleMinutes
     /\ BrokerAhead <= Buffer * CandleMinutes \/ span <= Buffer * CandleMinutes

\* One read of M1 bars holds every minute of candle c.
minutesInReach(c) == now - MaxMinutes <= begins(c)

\* What candle c itself shows.
shownBy(v, c) ==
  CASE v = "STOP_LOSS"   -> hitStop(minutesOf(c))
    [] v = "TAKE_PROFIT" -> hitTarget(minutesOf(c))
    [] v = "TIME_EXIT"   -> ~touches(minutesOf(c)) /\ stamp(c) >= trade.since + MaxHolding
    [] OTHER             -> hitStop(minutesOf(c)) /\ hitTarget(minutesOf(c))

\* What the minutes since the entry say: the first that touches a level touches the
\* one of the verdict and not the other, and TIME_EXIT means that none did until then.
settledBy(v) ==
  CASE v \in {"STOP_LOSS", "TAKE_PROFIT"} ->
         /\ touchesSinceEntry # {}
         /\ verdictOf({earliest(touchesSinceEntry)}) = v
    [] v = "TIME_EXIT" ->
         \A m \in touchesSinceEntry : m + BrokerAhead > trade.since + MaxHolding
    [] OTHER -> TRUE

\* A verdict is never guessed: the candle on record as the closing one is not older
\* than the entry by the clock of the bars and shows what the verdict says; and while
\* one read reaches back to the entry, and one of the M1 bars over the whole closing
\* candle, the verdict is the one the history gives minute by minute, and what the
\* history leaves open is on record as AMBIGUOUS_OUTCOME (evaluateEnteredTrade,
\* disambiguateWithM1).  Beyond that reach the code decides on what it read, as the
\* README says, and the clock of the bars may be ahead of that of the entry.
NeverGuessed ==
  trade.status = "CLOSED" =>
    /\ stamp(trade.candle) >= trade.since
    /\ shownBy(trade.exit, trade.candle)
    /\ historyInReach /\ minutesInReach(trade.candle) => settledBy(trade.exit)
=============================================================================
