----------------------------- MODULE DeskProofs -----------------------------
(***************************************************************************)
(* What the two pages of the owner and the hourly scheduler keep, for      *)
(* every number of symbols, plans, requests in flight, candles and ticks.  *)
(***************************************************************************)
EXTENDS AiTradePage, AnalysisPage, HourlyScanner, TLAPS

-----------------------------------------------------------------------------
(* The hourly scheduler.                                                   *)

CandleStatus == {Unclaimed, "CLAIMED", "ANALYZED", "ERROR"}

\* A tick works on a candle from the check of the bar on, and nobody else does
\* once it has claimed it.
Claimers == {"decide", "analyzed", "error"}
Working  == {"check", "claim"} \cup Claimers

TickType ==
  [pc: {"off", "next"} \cup Working, todo: SUBSET HourSymbols, seen: Nat,
   symbol: HourSymbols \cup {"none"}, candle: Nat]

HourlyTypes ==
  /\ closedHours \in 0 .. MaxHour
  /\ enabled \in SUBSET HourSymbols
  /\ processing \in [HourSymbols -> [HourCandles -> CandleStatus]]
  /\ tick \in [Ticks -> TickType]
  /\ decisions \in [HourSymbols -> [HourCandles -> Nat]]

decided(t) == decisions[tick[t].symbol][tick[t].candle]

\* What a tick holds in its locals is still so.
TickOK(t) ==
  /\ tick[t].seen <= closedHours
  /\ tick[t].pc \in Working => tick[t].symbol \in HourSymbols /\ tick[t].candle \in 1 .. closedHours
  /\ tick[t].pc \in Claimers => status(t) # Unclaimed
  /\ at(t, "decide") => decided(t) = 0
  /\ at(t, "analyzed") => decided(t) = 1

\* Two ticks never hold the claim of one candle.
OneClaimer ==
  \A t, u \in Ticks :
    /\ tick[t].pc \in Claimers /\ tick[u].pc \in Claimers
    /\ tick[t].symbol = tick[u].symbol /\ tick[t].candle = tick[u].candle
    => t = u

\* The inductive invariant of the scheduler.
HourlyInv ==
  /\ HourlyTypes
  /\ \A t \in Ticks : TickOK(t)
  /\ OneClaimer
  /\ DecidedOnce

\* A scheduler that has not started has decided nothing.
LEMMA HourlyStarts ==
  HourlyInit => HourlyInv
<1> SUFFICES ASSUME HourlyInit PROVE HourlyInv
  OBVIOUS
<1> USE HoursAssumption DEF HourlyInit
<1>1. NoTick \in TickType /\ NoTick.pc = "off" /\ NoTick.seen = 0
  BY DEF NoTick, TickType
<1>2. HourlyTypes
  BY <1>1 DEF HourlyTypes, HourCandles, CandleStatus
<1>3. \A t \in Ticks : TickOK(t)
  BY <1>1 DEF TickOK, Working, Claimers, at
<1>4. OneClaimer
  BY <1>1 DEF OneClaimer, Claimers
<1>5. DecidedOnce
  BY DEF DecidedOnce, HourCandles, Unclaimed
<1> QED BY <1>2, <1>3, <1>4, <1>5 DEF HourlyInv

\* A tick of which only the locals change keeps what it holds, if it claims
\* nothing by it.
LEMMA LocalStep ==
  ASSUME HourlyInv, NEW t \in Ticks, NEW r \in TickType,
         UNCHANGED <<closedHours, enabled, processing, decisions>>,
         tick' = [tick EXCEPT ![t] = r],
         r.seen <= closedHours,
         r.pc \in Working => r.symbol \in HourSymbols /\ r.candle \in 1 .. closedHours,
         r.pc \in Claimers =>
           /\ r.pc # "decide" /\ tick[t].pc \in Claimers
           /\ r.symbol = tick[t].symbol /\ r.candle = tick[t].candle
           /\ r.pc = "analyzed" => decided(t) = 1
  PROVE  HourlyInv'
<1> USE DEF HourlyInv
<1>1. HourlyTypes'
  BY DEF HourlyTypes
<1>2. tick'[t] = r /\ \A u \in Ticks : u # t => tick'[u] = tick[u]
  BY DEF HourlyTypes
<1>3. ASSUME NEW u \in Ticks PROVE TickOK(u)'
  <2>0. TickOK(t) /\ (tick'[t]).pc = r.pc
    BY <1>2
  <2>1. CASE u = t
    <3>1. (tick'[u]).seen <= closedHours'
      BY <1>2, <2>1
    <3>2. (tick'[u]).pc \in Working => (tick'[u]).symbol \in HourSymbols /\ (tick'[u]).candle \in 1 .. closedHours'
      BY <1>2, <2>1
    <3>3. (tick'[u]).pc \in Claimers => status(u)' # Unclaimed
      BY <1>2, <2>0, <2>1 DEF TickOK, status
    <3>4. ~at(u, "decide")' /\ (at(u, "analyzed")' => decided(u)' = 1)
      BY <1>2, <2>0, <2>1 DEF Claimers, at, decided
    <3> QED BY <3>1, <3>2, <3>3, <3>4 DEF TickOK
  <2>2. CASE u # t
    <3>1. TickOK(u)
      OBVIOUS
    <3> QED BY <1>2, <2>2, <3>1 DEF TickOK, at, status, decided
  <2> QED BY <2>1, <2>2
<1>4. OneClaimer'
  BY <1>2 DEF OneClaimer
<1>5. DecidedOnce'
  BY DEF DecidedOnce
<1> QED BY <1>1, <1>3, <1>4, <1>5

\* What holds of a tick at work.
LEMMA AtWork ==
  ASSUME HourlyInv, NEW t \in Ticks, tick[t].pc \in Working
  PROVE  /\ tick[t] \in TickType
         /\ tick[t].symbol \in HourSymbols
         /\ tick[t].candle \in HourCandles /\ tick[t].candle <= closedHours
         /\ status(t) \in CandleStatus /\ decided(t) \in Nat
<1>1. TickOK(t) /\ HourlyTypes
  BY DEF HourlyInv
<1>2. tick[t].symbol \in HourSymbols /\ tick[t].candle \in 1 .. closedHours
  BY <1>1 DEF TickOK
<1>3. tick[t].candle \in HourCandles /\ tick[t].candle <= closedHours
  BY <1>1, <1>2, HoursAssumption DEF HourlyTypes, HourCandles
<1> QED BY <1>1, <1>2, <1>3 DEF HourlyTypes, status, decided

\* A new candle, another watchlist or a restart.
LEMMA OutsideStep ==
  HourlyInv /\ (CloseCandle \/ EditWatchlist \/ StopScheduler) => HourlyInv'
<1> SUFFICES ASSUME HourlyInv, CloseCandle \/ EditWatchlist \/ StopScheduler PROVE HourlyInv'
  OBVIOUS
<1> USE HoursAssumption DEF HourlyInv
<1>1. CASE CloseCandle
  <2>1. HourlyTypes'
    BY <1>1 DEF CloseCandle, HourlyTypes
  <2>2. \A t \in Ticks : TickOK(t)'
    <3> TAKE t \in Ticks
    <3>1. TickOK(t) /\ tick[t] \in TickType
      BY DEF HourlyTypes
    <3> QED BY <1>1, <3>1 DEF CloseCandle, HourlyTypes, TickType, TickOK, at, status, decided
  <2>3. OneClaimer'
    BY <1>1 DEF CloseCandle, OneClaimer
  <2>4. DecidedOnce'
    BY <1>1 DEF CloseCandle, DecidedOnce, HourlyTypes, HourCandles
  <2> QED BY <2>1, <2>2, <2>3, <2>4
<1>2. CASE EditWatchlist
  <2>1. HourlyTypes'
    BY <1>2 DEF EditWatchlist, HourlyTypes
  <2>2. \A t \in Ticks : TickOK(t)'
    BY <1>2 DEF EditWatchlist, TickOK, at, status, decided
  <2>3. OneClaimer' /\ DecidedOnce'
    BY <1>2 DEF EditWatchlist, OneClaimer, DecidedOnce
  <2> QED BY <2>1, <2>2, <2>3
<1>3. CASE StopScheduler
  <2>1. NoTick \in TickType /\ NoTick.pc = "off" /\ NoTick.seen = 0
    BY DEF NoTick, TickType
  <2>2. HourlyTypes'
    BY <1>3, <2>1 DEF StopScheduler, HourlyTypes
  <2>3. \A t \in Ticks : TickOK(t)'
    BY <1>3, <2>1 DEF StopScheduler, HourlyTypes, TickOK, at, Working, Claimers
  <2>4. OneClaimer' /\ DecidedOnce'
    BY <1>3, <2>1 DEF StopScheduler, OneClaimer, DecidedOnce, Claimers
  <2> QED BY <2>2, <2>3, <2>4
<1> QED BY <1>1, <1>2, <1>3

\* A tick that records a status of its candle, and goes on with it only if the
\* claim is its own.
LEMMA RecordStep ==
  ASSUME HourlyInv, NEW t \in Ticks, tick[t].pc \in Working,
         NEW s \in CandleStatus, s # Unclaimed, s = "ANALYZED" => decided(t) = 1,
         NEW pc \in {"next"} \cup Claimers,
         pc \in Claimers => tick[t].pc \in Claimers \/ status(t) = Unclaimed,
         pc = "decide" => decided(t) = 0, pc = "analyzed" => decided(t) = 1,
         record(t, s), goto(t, pc), UNCHANGED <<closedHours, enabled, decisions>>
  PROVE  HourlyInv'
<1> USE DEF HourlyInv
<1> DEFINE S == tick[t].symbol
           C == tick[t].candle
<1>0. /\ S \in HourSymbols /\ C \in HourCandles /\ C <= closedHours
      /\ tick[t] \in TickType /\ TickOK(t)
  BY AtWork
<1>1. /\ tick' \in [Ticks -> TickType]
      /\ tick'[t] = [tick[t] EXCEPT !.pc = pc]
      /\ \A u \in Ticks : u # t => tick'[u] = tick[u]
  BY <1>0 DEF goto, HourlyTypes, TickType, Working
<1>2. /\ (tick'[t]).pc = pc /\ (tick'[t]).symbol = S /\ (tick'[t]).candle = C
      /\ (tick'[t]).seen = tick[t].seen
  BY <1>0, <1>1 DEF TickType
<1>3. /\ processing' \in [HourSymbols -> [HourCandles -> CandleStatus]]
      /\ processing'[S][C] = s
      /\ \A x \in HourSymbols, c \in HourCandles : x # S \/ c # C => processing'[x][c] = processing[x][c]
  BY <1>0 DEF record, HourlyTypes
<1>4. HourlyTypes'
  BY <1>1, <1>3 DEF HourlyTypes
<1>5. ASSUME NEW u \in Ticks PROVE TickOK(u)'
  <2>1. CASE u = t
    <3>1. (tick'[u]).seen <= closedHours' /\ (tick'[u]).symbol \in HourSymbols /\ (tick'[u]).candle \in 1 .. closedHours'
      BY <1>0, <1>2, <2>1 DEF TickOK, HourlyTypes
    <3>2. status(u)' # Unclaimed
      BY <1>2, <1>3, <2>1 DEF status
    <3>3. (at(u, "decide")' => decided(u)' = 0) /\ (at(u, "analyzed")' => decided(u)' = 1)
      BY <1>2, <2>1 DEF at, decided
    <3> QED BY <3>1, <3>2, <3>3 DEF TickOK
  <2>2. CASE u # t
    <3>1. TickOK(u) /\ tick'[u] = tick[u]
      BY <1>1, <2>2
    <3>2. ASSUME tick[u].pc \in Claimers PROVE status(u)' # Unclaimed
      <4>1. tick[u].symbol \in HourSymbols /\ tick[u].candle \in HourCandles
        BY <3>2, AtWork DEF Working
      <4> QED BY <1>3, <3>1, <3>2, <4>1 DEF TickOK, status
    <3> QED BY <3>1, <3>2 DEF TickOK, at, decided
  <2> QED BY <2>1, <2>2
<1>6. OneClaimer'
  <2> SUFFICES ASSUME NEW u \in Ticks, NEW v \in Ticks,
                      (tick'[u]).pc \in Claimers, (tick'[v]).pc \in Claimers,
                      (tick'[u]).symbol = (tick'[v]).symbol, (tick'[u]).candle = (tick'[v]).candle, u # v
               PROVE  FALSE
    BY DEF OneClaimer
  <2>1. \A w \in Ticks : w # t /\ tick[w].pc \in Claimers /\ tick[w].symbol = S /\ tick[w].candle = C
                         => pc \notin Claimers
    <3> SUFFICES ASSUME NEW w \in Ticks, w # t, tick[w].pc \in Claimers, tick[w].symbol = S,
                        tick[w].candle = C, pc \in Claimers
                 PROVE  FALSE
      OBVIOUS
    <3>1. TickOK(w) /\ OneClaimer
      OBVIOUS
    <3>2. status(t) # Unclaimed
      BY <3>1 DEF TickOK, status
    <3> QED BY <3>1, <3>2 DEF OneClaimer
  <2>2. CASE u = t
    BY <1>1, <1>2, <2>1, <2>2
  <2>3. CASE v = t
    BY <1>1, <1>2, <2>1, <2>3
  <2>4. CASE u # t /\ v # t
    BY <1>1, <2>4 DEF OneClaimer
  <2> QED BY <2>2, <2>3, <2>4
<1>7. DecidedOnce'
  BY <1>0, <1>3 DEF DecidedOnce, decided
<1> QED BY <1>4, <1>5, <1>6, <1>7

\* A tick that is started, asks for a bar, compares it or ends.
LEMMA TickLocals ==
  ASSUME HourlyInv, NEW t \in Ticks,
         StartTick(t) \/ (\E s \in HourSymbols : FetchBar(t, s)) \/ CheckLast(t) \/ EndTick(t)
  PROVE  HourlyInv'
<1>1. HourlyTypes /\ TickOK(t) /\ tick[t] \in TickType
  BY DEF HourlyInv, HourlyTypes
<1>2. CASE StartTick(t)
  <2> DEFINE r == [NoTick EXCEPT !.pc = "next", !.todo = enabled, !.seen = closedHours]
  <2>0. closedHours \in Nat /\ enabled \in SUBSET HourSymbols
    BY <1>1, HoursAssumption DEF HourlyTypes
  <2>1. r \in TickType /\ r.pc = "next" /\ r.seen <= closedHours
    <3>1. NoTick \in TickType
      BY DEF NoTick, TickType
    <3>2. r \in TickType
      BY <2>0, <3>1 DEF TickType
    <3>3. r.pc = "next" /\ r.seen = closedHours
      BY <3>1 DEF TickType
    <3> QED BY <2>0, <3>2, <3>3
  <2>2. tick' = [tick EXCEPT ![t] = r] /\ UNCHANGED <<closedHours, enabled, processing, decisions>>
    BY <1>2 DEF StartTick
  <2> HIDE DEF r
  <2> QED BY <2>1, <2>2, LocalStep DEF Working, Claimers
<1>3. CASE \E s \in HourSymbols : FetchBar(t, s)
  <2>1. PICK s \in HourSymbols : FetchBar(t, s)
    BY <1>3
  <2>2. PICK c \in 0 .. closedHours + 1 :
          tick' = [tick EXCEPT ![t].todo = @ \ {s}, ![t].symbol = s, ![t].candle = c,
                               ![t].pc = IF c \in 1 .. tick[t].seen THEN "check" ELSE "next"]
    BY <2>1 DEF FetchBar
  <2> DEFINE pc == IF c \in 1 .. tick[t].seen THEN "check" ELSE "next"
             r  == [tick[t] EXCEPT !.todo = @ \ {s}, !.symbol = s, !.candle = c, !.pc = pc]
  <2>0. c \in Nat /\ pc \in {"next", "check"} /\ tick \in [Ticks -> TickType]
    BY <1>1, HoursAssumption DEF HourlyTypes
  <2>3. tick' = [tick EXCEPT ![t] = r]
    BY <2>0, <2>2
  <2>31. /\ r \in TickType /\ r.pc = pc /\ r.seen = tick[t].seen /\ r.symbol = s /\ r.candle = c
    <3> HIDE DEF pc
    <3> QED BY <1>1, <2>0 DEF TickType, Working
  <2>4. r.seen <= closedHours /\ (pc = "check" => c \in 1 .. closedHours)
    <3>1. tick[t].seen <= closedHours /\ closedHours \in Nat /\ tick[t].seen \in Nat
      BY <1>1, HoursAssumption DEF TickOK, HourlyTypes, TickType
    <3>2. pc = "check" => c \in 1 .. closedHours
      BY <2>0, <3>1
    <3> HIDE DEF r, pc
    <3> QED BY <2>31, <3>1, <3>2
  <2>5. pc \notin Claimers /\ (pc \in Working => pc = "check")
    BY DEF Claimers, Working
  <2>6. UNCHANGED <<closedHours, enabled, processing, decisions>>
    BY <2>1 DEF FetchBar
  <2> HIDE DEF r, pc
  <2> QED BY <2>3, <2>31, <2>4, <2>5, <2>6, LocalStep
<1>4. CASE CheckLast(t)
  <2>1. PICK pc \in {"claim", "next"} : goto(t, pc)
    BY <1>4 DEF CheckLast
  <2> DEFINE r == [tick[t] EXCEPT !.pc = pc]
  <2>2. /\ r \in TickType /\ r.pc = pc /\ r.seen = tick[t].seen
        /\ r.symbol = tick[t].symbol /\ r.candle = tick[t].candle
        /\ tick' = [tick EXCEPT ![t] = r]
    BY <1>1, <2>1 DEF goto, HourlyTypes, TickType, Working
  <2>3. /\ r.seen <= closedHours /\ r.symbol \in HourSymbols /\ r.candle \in 1 .. closedHours
        /\ r.pc \notin Claimers
    BY <1>1, <1>4, <2>2 DEF CheckLast, at, TickOK, Working, Claimers
  <2>4. UNCHANGED <<closedHours, enabled, processing, decisions>>
    BY <1>4 DEF CheckLast
  <2> HIDE DEF r
  <2> QED BY <2>2, <2>3, <2>4, LocalStep
<1>5. CASE EndTick(t)
  <2>1. NoTick \in TickType /\ NoTick.pc = "off" /\ NoTick.seen = 0
    BY DEF NoTick, TickType
  <2>2. NoTick.seen <= closedHours /\ NoTick.pc \notin Working /\ NoTick.pc \notin Claimers
    BY <1>1, <2>1, HoursAssumption DEF HourlyTypes, Working, Claimers
  <2>3. tick' = [tick EXCEPT ![t] = NoTick] /\ UNCHANGED <<closedHours, enabled, processing, decisions>>
    BY <1>5 DEF EndTick
  <2> QED BY <2>1, <2>2, <2>3, LocalStep
<1> QED BY <1>2, <1>3, <1>4, <1>5

\* A decision is one of the tick whose claim the candle is, and its first.
LEMMA DecisionStep ==
  ASSUME HourlyInv, NEW t \in Ticks, DecideCandle(t)
  PROVE  HourlyInv'
<1> USE DEF HourlyInv
<1> DEFINE S == tick[t].symbol
           C == tick[t].candle
<1>0. /\ S \in HourSymbols /\ C \in HourCandles /\ C <= closedHours /\ decided(t) = 0
      /\ tick[t] \in TickType /\ TickOK(t) /\ tick[t].pc = "decide" /\ status(t) # Unclaimed
      /\ UNCHANGED <<closedHours, enabled, processing>>
  BY AtWork DEF DecideCandle, at, Working, Claimers, TickOK
<1>1. CASE decisions' = decisions /\ goto(t, "error")
  <2> DEFINE r == [tick[t] EXCEPT !.pc = "error"]
  <2>1. /\ r \in TickType /\ r.pc = "error" /\ r.seen = tick[t].seen
        /\ r.symbol = S /\ r.candle = C /\ tick' = [tick EXCEPT ![t] = r]
    BY <1>0, <1>1 DEF goto, HourlyTypes, TickType, Working, Claimers
  <2>2. r.seen <= closedHours /\ r.symbol \in HourSymbols /\ r.candle \in 1 .. closedHours
    BY <1>0, <2>1 DEF TickOK, Working, Claimers
  <2>3. tick[t].pc \in Claimers
    BY <1>0 DEF Claimers
  <2> HIDE DEF r
  <2> QED BY <1>0, <1>1, <2>1, <2>2, <2>3, LocalStep
<1>2. ASSUME decisions' = [decisions EXCEPT ![S][C] = @ + 1],
             NEW pc \in {"analyzed", "error"}, goto(t, pc)
      PROVE  HourlyInv'
  <2>1. /\ decisions' \in [HourSymbols -> [HourCandles -> Nat]]
        /\ decisions'[S][C] = 1
        /\ \A x \in HourSymbols, c \in HourCandles : x # S \/ c # C => decisions'[x][c] = decisions[x][c]
    BY <1>0, <1>2 DEF HourlyTypes, decided
  <2>2. /\ tick' \in [Ticks -> TickType]
        /\ tick'[t] = [tick[t] EXCEPT !.pc = pc]
        /\ \A u \in Ticks : u # t => tick'[u] = tick[u]
    BY <1>0, <1>2 DEF goto, HourlyTypes, TickType, Working, Claimers
  <2>3. /\ (tick'[t]).pc = pc /\ (tick'[t]).symbol = S /\ (tick'[t]).candle = C
        /\ (tick'[t]).seen = tick[t].seen
    BY <1>0, <2>2 DEF TickType
  <2>4. HourlyTypes'
    BY <1>0, <2>1, <2>2 DEF HourlyTypes
  <2>5. ASSUME NEW u \in Ticks PROVE TickOK(u)'
    <3>1. CASE u = t
      <4>1. (tick'[u]).seen <= closedHours' /\ (tick'[u]).symbol \in HourSymbols /\ (tick'[u]).candle \in 1 .. closedHours'
        BY <1>0, <2>3, <3>1 DEF TickOK, HourlyTypes, Working, Claimers
      <4>2. status(u)' # Unclaimed /\ decided(u)' = 1 /\ ~at(u, "decide")'
        BY <1>0, <2>1, <2>3, <3>1 DEF status, decided, at
      <4> QED BY <4>1, <4>2 DEF TickOK
    <3>2. CASE u # t
      <4>1. TickOK(u) /\ tick'[u] = tick[u] /\ OneClaimer
        BY <2>2, <3>2
      <4>2. ASSUME tick[u].pc \in Claimers PROVE decided(u)' = decided(u)
        <5>1. tick[u].symbol \in HourSymbols /\ tick[u].candle \in HourCandles
          BY <4>2, AtWork DEF Working
        <5>2. tick[u].symbol # S \/ tick[u].candle # C
          BY <1>0, <3>2, <4>1, <4>2 DEF OneClaimer, Claimers
        <5> QED BY <2>1, <4>1, <5>1, <5>2 DEF decided
      <4> QED BY <1>0, <4>1, <4>2 DEF TickOK, at, status, Claimers
    <3> QED BY <3>1, <3>2
  <2>6. OneClaimer'
    <3>1. \A u \in Ticks : /\ (tick'[u]).pc \in Claimers => tick[u].pc \in Claimers
                           /\ (tick'[u]).symbol = tick[u].symbol /\ (tick'[u]).candle = tick[u].candle
      BY <1>0, <2>2, <2>3 DEF Claimers
    <3>2. OneClaimer
      OBVIOUS
    <3> QED BY <3>1, <3>2 DEF OneClaimer
  <2>7. DecidedOnce'
    BY <1>0, <2>1 DEF DecidedOnce, status, HourlyTypes
  <2> QED BY <2>4, <2>5, <2>6, <2>7
<1> QED BY <1>1, <1>2 DEF DecideCandle

\* Every step of the scheduler.
LEMMA HourlyStep ==
  HourlyInv /\ [HourlyNext]_hourlyVars => HourlyInv'
<1> SUFFICES ASSUME HourlyInv, [HourlyNext]_hourlyVars PROVE HourlyInv'
  OBVIOUS
<1>1. CASE CloseCandle \/ EditWatchlist \/ StopScheduler
  BY <1>1, OutsideStep
<1>2. ASSUME NEW t \in Ticks,
             StartTick(t) \/ CheckLast(t) \/ EndTick(t) \/ (\E s \in HourSymbols : FetchBar(t, s))
      PROVE  HourlyInv'
  BY <1>2, TickLocals
<1>3. ASSUME NEW t \in Ticks, ClaimCandle(t) PROVE HourlyInv'
  <2>1. tick[t].pc = "claim" /\ tick[t].pc \in Working /\ TickOK(t) /\ HourlyTypes /\ DecidedOnce
    BY <1>3 DEF ClaimCandle, at, Working, HourlyInv
  <2>2. CASE UNCHANGED processing /\ goto(t, "next")
    <3> DEFINE r == [tick[t] EXCEPT !.pc = "next"]
    <3>1. /\ r \in TickType /\ r.pc = "next" /\ r.seen = tick[t].seen
          /\ tick' = [tick EXCEPT ![t] = r]
      BY <2>1, <2>2 DEF goto, HourlyTypes, TickType
    <3>2. r.seen <= closedHours /\ r.pc \notin Working /\ r.pc \notin Claimers
      BY <2>1, <3>1 DEF TickOK, Working, Claimers
    <3>3. UNCHANGED <<closedHours, enabled, processing, decisions>>
      BY <1>3, <2>2 DEF ClaimCandle
    <3> HIDE DEF r
    <3> QED BY <3>1, <3>2, <3>3, LocalStep
  <2>3. CASE claimed(status(t)) /\ record(t, "CLAIMED")
             /\ tick' \in {[tick EXCEPT ![t].pc = pc] : pc \in {"decide", "next"}}
    <3>1. PICK pc \in {"decide", "next"} : goto(t, pc)
      BY <2>3 DEF goto
    <3>2. status(t) = Unclaimed
      BY <2>3 DEF claimed
    <3>3. decided(t) = 0
      BY <2>1, <3>2, AtWork DEF DecidedOnce, decided, status
    <3>4. "CLAIMED" \in CandleStatus /\ "CLAIMED" # Unclaimed /\ pc \in {"next"} \cup Claimers /\ pc # "analyzed"
      BY DEF CandleStatus, Unclaimed, Claimers
    <3>5. UNCHANGED <<closedHours, enabled, decisions>>
      BY <1>3 DEF ClaimCandle
    <3> QED BY <2>1, <2>3, <3>1, <3>2, <3>3, <3>4, <3>5, RecordStep
  <2> QED BY <1>3, <2>2, <2>3 DEF ClaimCandle
<1>4. ASSUME NEW t \in Ticks, DecideCandle(t) PROVE HourlyInv'
  BY <1>4, DecisionStep
<1>5. ASSUME NEW t \in Ticks, MarkAnalyzed(t) \/ MarkError(t) PROVE HourlyInv'
  <2>1. /\ tick[t].pc \in {"analyzed", "error"} /\ tick[t].pc \in Working /\ tick[t].pc \in Claimers
        /\ TickOK(t) /\ HourlyTypes
    BY <1>5 DEF MarkAnalyzed, MarkError, at, Working, Claimers, HourlyInv
  <2>2. PICK pc \in {"next", "error"} : goto(t, pc)
    BY <1>5 DEF MarkAnalyzed, MarkError
  <2>3. UNCHANGED <<closedHours, enabled, decisions>>
    BY <1>5 DEF MarkAnalyzed, MarkError
  <2>4. CASE UNCHANGED processing
    <3> DEFINE r == [tick[t] EXCEPT !.pc = pc]
    <3>1. /\ r \in TickType /\ r.pc = pc /\ r.seen = tick[t].seen
          /\ r.symbol = tick[t].symbol /\ r.candle = tick[t].candle
          /\ tick' = [tick EXCEPT ![t] = r]
      BY <2>1, <2>2 DEF goto, HourlyTypes, TickType, Working, Claimers
    <3>2. /\ r.seen <= closedHours /\ r.symbol \in HourSymbols /\ r.candle \in 1 .. closedHours
          /\ r.pc # "decide" /\ r.pc # "analyzed"
      BY <2>1, <3>1 DEF TickOK
    <3> HIDE DEF r
    <3> QED BY <2>1, <2>3, <2>4, <3>1, <3>2, LocalStep
  <2>5. ASSUME NEW s \in {"ANALYZED", "ERROR"}, record(t, s), s = "ANALYZED" => at(t, "analyzed")
        PROVE  HourlyInv'
    <3>1. s \in CandleStatus /\ s # Unclaimed /\ (s = "ANALYZED" => decided(t) = 1)
      BY <2>1, <2>5 DEF CandleStatus, Unclaimed, TickOK
    <3>2. pc \in {"next"} \cup Claimers /\ pc # "decide" /\ pc # "analyzed"
      BY DEF Claimers
    <3> QED BY <2>1, <2>2, <2>3, <2>5, <3>1, <3>2, RecordStep
  <2> QED BY <1>5, <2>4, <2>5 DEF MarkAnalyzed, MarkError
<1>6. CASE UNCHANGED hourlyVars
  BY <1>6 DEF hourlyVars, HourlyInv, HourlyTypes, TickOK, at, status, decided, OneClaimer, DecidedOnce
<1> QED BY <1>1, <1>2, <1>3, <1>4, <1>5, <1>6 DEF HourlyNext

\* However many ticks overlap, fail or are lost, a candle is decided on at most
\* once, never before it has closed, and shown as analysed only if it was.
THEOREM HourlyDecidedOnce == HourlySpec => []DecidedOnce
<1>1. HourlyInv => DecidedOnce
  BY DEF HourlyInv
<1> QED BY HourlyStarts, HourlyStep, <1>1, PTL DEF HourlySpec

-----------------------------------------------------------------------------
(* The AI Analysis page.                                                   *)

\* What the page shows follows what is selected: inductive as it stands.
THEOREM DeskShownIsSelected == DeskSpec => []ShownIsSelected
<1>1. DeskInit => ShownIsSelected
  BY DEF DeskInit, ShownIsSelected, Overlaid
<1>2. ASSUME ShownIsSelected, [DeskNext]_deskVars PROVE ShownIsSelected'
  <2> USE <1>2 DEF ShownIsSelected, Overlaid
  <2>1. ASSUME NEW symbol, NEW calls, switchTo(symbol, calls) PROVE ShownIsSelected'
    BY <2>1 DEF switchTo
  <2>2. CASE Owner
    <3>1. ASSUME NEW s \in DeskSymbols, SelectFromRanked(s) PROVE ShownIsSelected'
      BY <2>1, <3>1 DEF SelectFromRanked, loadSelected, tradingVars
    <3>2. ASSUME NEW s \in DeskSymbols \cup {NoSymbol}, Choose(s) PROVE ShownIsSelected'
      BY <2>1, <3>2 DEF Choose
    <3>3. CASE CloseAnalysis
      BY <2>1, <3>3 DEF CloseAnalysis
    <3>4. CASE Analyze \/ CallWatchlist
      BY <3>4 DEF Analyze, CallWatchlist, loadSelected, tradingVars
    <3>5. CASE OpenTradeModal
      BY <3>5 DEF OpenTradeModal, FullResult, shownVars
    <3>6. CASE CancelTradeModal \/ CloseTradeModal \/ AnalyzeAgain \/ LeaveDesk
      BY <3>6 DEF CancelTradeModal, CloseTradeModal, AnalyzeAgain, LeaveDesk, loadSelected, shownVars
    <3>7. ASSUME NEW r \in RequestSlots, ConfirmTrade(r) PROVE ShownIsSelected'
      BY <3>7 DEF ConfirmTrade, shownVars
    <3> QED BY <2>2, <3>1, <3>2, <3>3, <3>4, <3>5, <3>6, <3>7 DEF Owner
  <2>3. CASE RefreshLightweight
    BY <2>3 DEF RefreshLightweight, loadSelected, tradingVars
  <2>4. ASSUME NEW call \in loads, LoadAnswered(call) \/ LoadEnds(call) PROVE ShownIsSelected'
    <3>1. apply(call) \/ UNCHANGED <<analysis, analyzed>>
      BY <2>4 DEF LoadAnswered, LoadEnds
    <3>2. UNCHANGED <<chosen, tradingVars>>
      BY <2>4 DEF LoadAnswered, LoadEnds
    <3>3. (analyzed' => analysis' = chosen') /\ (analyzed => analyzed')
      <4>1. CASE UNCHANGED <<analysis, analyzed>>
        <5>1. analysis' = analysis /\ analyzed' = analyzed /\ chosen' = chosen
          BY <3>2, <4>1
        <5> QED BY <5>1
      <4>2. CASE call.symbol = chosen /\ apply(call)
        <5>1. analysis' = chosen /\ analyzed' = (analyzed \/ call.persist)
          BY <4>2 DEF apply
        <5>2. chosen' = chosen
          BY <3>2
        <5> QED BY <5>1, <5>2, Zenon
      <4> QED BY <3>1, <4>1, <4>2 DEF apply
    <3>4. chosen' = chosen /\ modal' = modal
      BY <3>2 DEF tradingVars
    <3> QED BY <3>3, <3>4
  <2>5. ASSUME NEW r \in RequestSlots, TradeServed(r) \/ TradeAnswered(r) PROVE ShownIsSelected'
    BY <2>5 DEF TradeServed, TradeAnswered, shownVars
  <2>6. ASSUME NEW s \in DeskSymbols, ServeElsewhere(s) \/ Reconcile(s) \/ LateFill(s)
        PROVE  ShownIsSelected'
    <3>1. UNCHANGED <<shownVars, tradingVars>>
      BY <2>6 DEF ServeElsewhere, Reconcile, LateFill
    <3> QED BY <3>1 DEF shownVars, tradingVars
  <2>7. CASE UNCHANGED deskVars
    BY <2>7 DEF deskVars, shownVars, tradingVars
  <2> QED BY <1>2, <2>2, <2>3, <2>4, <2>5, <2>6, <2>7 DEF DeskNext
<1> QED BY <1>1, <1>2, PTL DEF DeskSpec

Symbols == DeskSymbols \cup {NoSymbol}

DeskPlan ==
  [candle: Nat,
   row: [status: Plans!EntryStatus \cup {Plans!Absent}, key: {Plans!NoKey, 1}, aged: BOOLEAN]]

Answer == [code: {"none", "failed", "executed", "ALREADY_EXECUTED"}, symbol: Symbols, candle: Nat]

\* A plan that is recorded as executed has a position.
PlanReal(s, plan, op) == plan.row.status = "EXECUTED" => <<s, plan.candle>> \in op

\* An answer that speaks of a position is about one.
AnswerReal(answer, op) ==
  answer.code \in {"executed", "ALREADY_EXECUTED"} => <<answer.symbol, answer.candle>> \in op

ServerReal ==
  /\ desk \in [DeskSymbols -> DeskPlan]
  /\ \A s \in DeskSymbols : PlanReal(s, desk[s], opened)

PageTypes ==
  /\ analysis \in Symbols /\ modal \in Symbols
  /\ requests \in [RequestSlots -> [symbol: Symbols, answer: Answer]]
  /\ outcome \in Answer /\ activeTrade \in Answer

PageReal ==
  /\ \A r \in RequestSlots : AnswerReal(requests[r].answer, opened)
  /\ AnswerReal(outcome, opened)
  /\ execution = "success" => outcome.code = "executed"
  /\ activeTrade # NoAnswer => activeTrade.code = "executed" /\ AnswerReal(activeTrade, opened)

\* The inductive invariant of the page: every answer, on the page or on its
\* way, is true of what MT5 has, and so is the row it was read from.
DeskInv == ServerReal /\ PageTypes /\ PageReal

\* No analysis computes EXECUTED.
LEMMA NeverComputedExecuted ==
  Plans!FreshComputed \cup Plans!Claimable \subseteq Plans!EntryStatus \ {"EXECUTED"}
BY DEF Plans!FreshComputed, Plans!computeRawEntryStatus, Plans!Claimable, Plans!EntryStatus

\* An analysis leaves a plan as real as it found it.
LEMMA PersistedReal ==
  ASSUME ServerReal, NEW s \in DeskSymbols,
         NEW computed \in Plans!FreshComputed \cup Plans!Claimable,
         NEW plan \in persisted(s, computed)
  PROVE  plan \in DeskPlan /\ PlanReal(s, plan, opened)
<1>1. PICK q \in {desk[s], [candle |-> desk[s].candle + 1, row |-> Plans!NoRow]} :
        plan = [q EXCEPT !.row = Plans!persistEntryPlan(q.row, computed)]
  BY DEF persisted
<1>2. computed \in Plans!EntryStatus \ {"EXECUTED"}
  BY NeverComputedExecuted
<1>3. desk[s] \in DeskPlan /\ PlanReal(s, desk[s], opened)
  BY DEF ServerReal
<1>4. q \in DeskPlan /\ PlanReal(s, q, opened)
  <2>1. CASE q = desk[s]
    BY <1>3, <2>1
  <2>2. CASE q = [candle |-> desk[s].candle + 1, row |-> Plans!NoRow]
    <3>1. desk[s].candle + 1 \in Nat
      BY <1>3 DEF DeskPlan
    <3> QED BY <2>2, <3>1 DEF DeskPlan, PlanReal, Plans!NoRow, Plans!Absent, Plans!NoKey
  <2> QED BY <2>1, <2>2
<1>5. plan \in DeskPlan /\ plan.candle = q.candle /\ plan.row = Plans!persistEntryPlan(q.row, computed)
  BY <1>1, <1>2, <1>4 DEF DeskPlan, Plans!persistEntryPlan
<1>6. plan.row.status = "EXECUTED" => q.row.status = "EXECUTED"
  BY <1>2, <1>4, <1>5 DEF Plans!persistEntryPlan, DeskPlan
<1> QED BY <1>4, <1>5, <1>6 DEF PlanReal

\* What a served trade leaves and answers.
ServedReal(s, e) ==
  /\ e.plan \in DeskPlan /\ e.opens \in BOOLEAN /\ e.answer \in Answer
  /\ e.plan.row.status = "EXECUTED" => e.opens \/ <<s, e.plan.candle>> \in opened
  /\ e.answer.code \in {"executed", "ALREADY_EXECUTED"} =>
       /\ e.answer.symbol = s /\ e.answer.candle = e.plan.candle
       /\ e.opens \/ <<s, e.plan.candle>> \in opened

\* One attempt on a plan.
LEMMA AttemptReal ==
  ASSUME NEW s \in DeskSymbols, NEW plan \in DeskPlan, PlanReal(s, plan, opened),
         NEW e \in attempts(s, plan)
  PROVE  ServedReal(s, e)
<1> DEFINE claimed1 == Plans!claimPlanForExecution(plan.row, 1)
           left(row) == [plan EXCEPT !.row = row]
<1>1. plan.candle \in Nat /\ s \in Symbols
  BY DEF DeskPlan, Symbols
<1>2. /\ notExecuted(s) \in Answer /\ notExecuted(s).code = "failed"
      /\ \A code \in {"executed", "ALREADY_EXECUTED"} :
           /\ answerFor(code, s, plan.candle) \in Answer
           /\ answerFor(code, s, plan.candle).symbol = s
           /\ answerFor(code, s, plan.candle).candle = plan.candle
  BY <1>1 DEF notExecuted, answerFor, Answer
<1>3. \A row : row \in [status: Plans!EntryStatus \cup {Plans!Absent}, key: {Plans!NoKey, 1}, aged: BOOLEAN]
               => left(row) \in DeskPlan /\ left(row).row = row /\ left(row).candle = plan.candle
  BY DEF DeskPlan
<1>4. CASE Plans!isClaimable(plan.row)
  <2>1. \A row \in {claimed1, Plans!blockPlan(claimed1), Plans!expirePlanRow(claimed1)} :
          /\ left(row) \in DeskPlan /\ left(row).row.status # "EXECUTED" /\ left(row).candle = plan.candle
    <3>1. /\ claimed1 \in [status: Plans!EntryStatus, key: {Plans!NoKey, 1}, aged: BOOLEAN]
          /\ claimed1.status = "EXECUTING"
      BY DEF DeskPlan, Plans!claimPlanForExecution, Plans!EntryStatus
    <3>2. \A row \in {Plans!blockPlan(claimed1), Plans!expirePlanRow(claimed1)} :
            /\ row \in [status: Plans!EntryStatus, key: {Plans!NoKey, 1}, aged: BOOLEAN]
            /\ row.status # "EXECUTED"
      <4> HIDE DEF claimed1
      <4> QED BY <3>1 DEF Plans!blockPlan, Plans!expirePlanRow, Plans!Settled, Plans!EntryStatus
    <3> HIDE DEF claimed1, left
    <3> QED BY <1>3, <3>1, <3>2
  <2>2. LET row == Plans!whenExecuting(claimed1, "EXECUTED")
        IN  left(row) \in DeskPlan /\ left(row).candle = plan.candle
    <3>1. Plans!whenExecuting(claimed1, "EXECUTED") \in [status: Plans!EntryStatus, key: {Plans!NoKey, 1}, aged: BOOLEAN]
      BY DEF DeskPlan, Plans!claimPlanForExecution, Plans!whenExecuting, Plans!EntryStatus
    <3> HIDE DEF claimed1, left
    <3> QED BY <1>3, <3>1
  <2>3. \/ /\ e.plan = left(Plans!whenExecuting(claimed1, "EXECUTED")) /\ e.opens
           /\ e.answer \in {answerFor("executed", s, plan.candle), notExecuted(s)}
        \/ /\ \E row \in {claimed1, Plans!blockPlan(claimed1), Plans!expirePlanRow(claimed1)} : e.plan = left(row)
           /\ e.opens \in BOOLEAN /\ e.answer = notExecuted(s)
    <3> DEFINE result(row, opens, answer) == [plan |-> left(row), opens |-> opens, answer |-> answer]
               executed == Plans!whenExecuting(claimed1, "EXECUTED")
    <3>1. e \in {result(executed, TRUE, answerFor("executed", s, plan.candle)), result(executed, TRUE, notExecuted(s))}
               \cup {result(row, FALSE, notExecuted(s)) : row \in {Plans!blockPlan(claimed1), Plans!expirePlanRow(claimed1)}}
               \cup {result(row, opens, notExecuted(s)) : opens \in BOOLEAN, row \in {claimed1, Plans!blockPlan(claimed1)}}
      BY <1>4 DEF attempts
    <3> HIDE DEF claimed1, left, executed
    <3>2. CASE e \in {result(executed, TRUE, answerFor("executed", s, plan.candle)), result(executed, TRUE, notExecuted(s))}
      BY <3>2 DEF executed
    <3>3. CASE e \in {result(row, FALSE, notExecuted(s)) : row \in {Plans!blockPlan(claimed1), Plans!expirePlanRow(claimed1)}}
      <4>1. PICK row \in {Plans!blockPlan(claimed1), Plans!expirePlanRow(claimed1)} :
              e = [plan |-> left(row), opens |-> FALSE, answer |-> notExecuted(s)]
        BY <3>3
      <4>2. e.plan = left(row) /\ e.opens = FALSE /\ e.answer = notExecuted(s)
        BY <4>1
      <4>3. row \in {claimed1, Plans!blockPlan(claimed1), Plans!expirePlanRow(claimed1)}
        BY <4>1
      <4> QED BY <4>2, <4>3
    <3>4. CASE e \in {result(row, opens, notExecuted(s)) : opens \in BOOLEAN, row \in {claimed1, Plans!blockPlan(claimed1)}}
      BY <3>4
    <3> QED BY <3>1, <3>2, <3>3, <3>4
  <2> HIDE DEF claimed1, left
  <2>4. CASE /\ e.plan = left(Plans!whenExecuting(claimed1, "EXECUTED")) /\ e.opens
             /\ e.answer \in {answerFor("executed", s, plan.candle), notExecuted(s)}
    BY <1>2, <2>2, <2>4 DEF ServedReal
  <2>5. CASE /\ \E row \in {claimed1, Plans!blockPlan(claimed1), Plans!expirePlanRow(claimed1)} : e.plan = left(row)
             /\ e.opens \in BOOLEAN /\ e.answer = notExecuted(s)
    BY <1>2, <2>1, <2>5 DEF ServedReal
  <2> QED BY <2>3, <2>4, <2>5
<1>5. CASE ~Plans!isClaimable(plan.row)
  <2>1. /\ e.plan = [plan EXCEPT !.row = plan.row] /\ e.opens = FALSE
        /\ e.answer = IF plan.row.status = "EXECUTED"
                      THEN answerFor("ALREADY_EXECUTED", s, plan.candle) ELSE notExecuted(s)
    BY <1>5 DEF attempts
  <2>2. e.plan \in DeskPlan /\ e.plan.row = plan.row /\ e.plan.candle = plan.candle
    BY <2>1 DEF DeskPlan
  <2> QED BY <1>2, <2>1, <2>2 DEF ServedReal, PlanReal
<1> QED BY <1>4, <1>5

\* A demo trade of a symbol, from wherever it was asked for.
LEMMA ExecutionReal ==
  ASSUME ServerReal, NEW s \in DeskSymbols, NEW e \in executions(s)
  PROVE  ServedReal(s, e)
<1>1. CASE e \in {[plan |-> plan, opens |-> FALSE, answer |-> notExecuted(s)] : plan \in {desk[s]} \cup analyses(s)}
  <2>1. PICK plan \in {desk[s]} \cup analyses(s) : e = [plan |-> plan, opens |-> FALSE, answer |-> notExecuted(s)]
    BY <1>1
  <2>2. plan \in DeskPlan /\ PlanReal(s, plan, opened)
    <3>1. CASE plan = desk[s]
      BY <3>1 DEF ServerReal
    <3>2. CASE plan \in analyses(s)
      <4>1. PICK computed \in Plans!FreshComputed : plan \in persisted(s, computed)
        BY <3>2 DEF analyses
      <4> QED BY <4>1, PersistedReal
    <3> QED BY <3>1, <3>2
  <2>3. notExecuted(s) \in Answer /\ notExecuted(s).code = "failed"
    BY DEF notExecuted, answerFor, Answer, Symbols
  <2> QED BY <2>1, <2>2, <2>3 DEF ServedReal, PlanReal
<1>2. CASE e \in UNION {attempts(s, plan) : plan \in UNION {persisted(s, computed) : computed \in Plans!Claimable}}
  <2>1. PICK plan \in UNION {persisted(s, computed) : computed \in Plans!Claimable} : e \in attempts(s, plan)
    BY <1>2
  <2>2. PICK computed \in Plans!Claimable : plan \in persisted(s, computed)
    OBVIOUS
  <2>3. plan \in DeskPlan /\ PlanReal(s, plan, opened)
    BY <2>2, PersistedReal
  <2> QED BY <2>1, <2>3, AttemptReal
<1> QED BY <1>1, <1>2 DEF executions

\* A plan that is stored as real as this one keeps the table real.
LEMMA StoreReal ==
  ASSUME ServerReal, NEW s \in DeskSymbols, NEW plan \in DeskPlan, NEW opens \in BOOLEAN,
         plan.row.status = "EXECUTED" => opens \/ <<s, plan.candle>> \in opened,
         store(s, plan, opens)
  PROVE  /\ ServerReal' /\ opened \subseteq opened'
         /\ opens => <<s, plan.candle>> \in opened'
<1>1. opened \subseteq opened' /\ (opens => <<s, plan.candle>> \in opened')
  BY DEF store
<1>2. /\ desk' \in [DeskSymbols -> DeskPlan]
      /\ desk'[s] = plan /\ \A x \in DeskSymbols : x # s => desk'[x] = desk[x]
  BY DEF store, ServerReal
<1>3. \A x \in DeskSymbols : PlanReal(x, desk'[x], opened')
  BY <1>1, <1>2 DEF ServerReal, PlanReal
<1> QED BY <1>1, <1>2, <1>3 DEF ServerReal

\* What is true of MT5 stays true.
LEMMA PageRealKeeps ==
  ASSUME PageReal, opened \subseteq opened',
         UNCHANGED <<execution, outcome, activeTrade, requests>>
  PROVE  PageReal'
BY DEF PageReal, AnswerReal

\* The server's own steps.
LEMMA ServerKeeps ==
  ASSUME DeskInv, NEW s \in DeskSymbols, ServeElsewhere(s) \/ Reconcile(s) \/ LateFill(s)
  PROVE  DeskInv'
<1> USE DEF DeskInv
<1>0. desk[s] \in DeskPlan /\ PlanReal(s, desk[s], opened)
  BY DEF ServerReal
<1>1. ServerReal' /\ opened \subseteq opened'
  <2>1. CASE ServeElsewhere(s)
    <3>1. PICK e \in executions(s) : store(s, e.plan, e.opens)
      BY <2>1 DEF ServeElsewhere
    <3>2. ServedReal(s, e)
      BY ExecutionReal
    <3> QED BY <3>1, <3>2, StoreReal DEF ServedReal
  <2>2. CASE Reconcile(s)
    <3>1. PICK row \in reconciled(s) : store(s, [desk[s] EXCEPT !.row = row], FALSE)
      BY <2>2 DEF Reconcile
    <3> DEFINE plan == [desk[s] EXCEPT !.row = row]
    <3>2. /\ row \in [status: Plans!EntryStatus \cup {Plans!Absent}, key: {Plans!NoKey, 1}, aged: BOOLEAN]
          /\ row.status = "EXECUTED" => <<s, desk[s].candle>> \in opened
      BY <1>0 DEF reconciled, DeskPlan, PlanReal, Plans!releasePlan, Plans!expireStalePlan, Plans!whenExecuting,
                  Plans!markReconciliationFailed, Plans!EntryStatus, Plans!Active, Plans!NoKey
    <3>3. plan \in DeskPlan /\ plan.row = row /\ plan.candle = desk[s].candle
      BY <1>0, <3>2 DEF DeskPlan
    <3>4. store(s, plan, FALSE)
      BY <3>1
    <3> HIDE DEF plan
    <3> QED BY <3>2, <3>3, <3>4, StoreReal
  <2>3. CASE LateFill(s)
    BY <1>0, <2>3, StoreReal DEF LateFill
  <2> QED BY <2>1, <2>2, <2>3
<1>2. UNCHANGED <<shownVars, tradingVars>>
  BY DEF ServeElsewhere, Reconcile, LateFill
<1>3. UNCHANGED <<analysis, modal, execution, outcome, activeTrade, requests>>
  BY <1>2 DEF shownVars, tradingVars
<1> QED BY <1>1, <1>3, PageRealKeeps DEF PageTypes

\* A step that touches neither the trades of the page nor the server.
LEMMA LookKeeps ==
  ASSUME DeskInv, analysis' \in Symbols,
         UNCHANGED <<modal, execution, outcome, activeTrade, requests, desk, opened>>
  PROVE  DeskInv'
BY DEF DeskInv, ServerReal, PageTypes, PageReal

\* A step that closes the modal and forgets its outcome.
LEMMA ResetKeeps ==
  ASSUME DeskInv, analysis' \in Symbols, modal' = NoSymbol, resetTrade,
         activeTrade' \in {activeTrade, NoAnswer},
         requests' \in {requests, [r \in RequestSlots |-> NoCall]},
         UNCHANGED serverVars
  PROVE  DeskInv'
<1> USE DEF DeskInv
<1>1. NoAnswer \in Answer /\ NoAnswer.code = "none" /\ NoSymbol \in Symbols
  BY DEF NoAnswer, Answer, Symbols
<1>2. NoCall \in [symbol: Symbols, answer: Answer] /\ NoCall.answer = NoAnswer
  BY <1>1 DEF NoCall
<1>3. UNCHANGED <<desk, opened>>
  BY DEF serverVars
<1>4. ServerReal'
  BY <1>3 DEF ServerReal
<1>5. outcome' = NoAnswer /\ execution' = "idle"
  BY DEF resetTrade
<1>6. PageTypes'
  BY <1>1, <1>2, <1>5 DEF PageTypes
<1>7. PageReal'
  <2>1. \A r \in RequestSlots : AnswerReal((requests'[r]).answer, opened')
    <3>1. CASE requests' = requests
      BY <1>3, <3>1 DEF PageReal
    <3>2. CASE requests' = [r \in RequestSlots |-> NoCall]
      BY <1>1, <1>2, <3>2 DEF AnswerReal
    <3> QED BY <3>1, <3>2
  <2> QED BY <1>1, <1>3, <1>5, <2>1 DEF PageReal, AnswerReal
<1> QED BY <1>4, <1>6, <1>7

\* What the owner clicks.
LEMMA OwnerKeeps ==
  ASSUME DeskInv, Owner
  PROVE  DeskInv'
<1> USE DEF DeskInv
<1>0. analysis \in Symbols /\ modal \in Symbols /\ NoSymbol \in Symbols
  BY DEF PageTypes, Symbols
<1>1. ASSUME NEW symbol, NEW calls, switchTo(symbol, calls) PROVE DeskInv'
  <2>1. modal' = NoSymbol /\ resetTrade /\ UNCHANGED <<activeTrade, requests, serverVars>>
    BY <1>1 DEF switchTo
  <2>2. analysis' \in Symbols
    BY <1>0, <1>1 DEF switchTo
  <2> QED BY <2>1, <2>2, ResetKeeps
<1>2. ASSUME NEW persist, loadSelected(persist), UNCHANGED tradingVars PROVE DeskInv'
  <2>1. analysis' = analysis /\ UNCHANGED <<modal, execution, outcome, activeTrade, requests, desk, opened>>
    BY <1>2 DEF loadSelected, tradingVars, serverVars
  <2> QED BY <1>0, <2>1, LookKeeps
<1>3. ASSUME NEW s \in DeskSymbols, SelectFromRanked(s) PROVE DeskInv'
  BY <1>1, <1>2, <1>3 DEF SelectFromRanked
<1>4. ASSUME NEW s \in DeskSymbols \cup {NoSymbol}, Choose(s) PROVE DeskInv'
  BY <1>1, <1>4 DEF Choose
<1>5. CASE CloseAnalysis
  BY <1>1, <1>5 DEF CloseAnalysis
<1>6. CASE Analyze
  BY <1>2, <1>6 DEF Analyze
<1>7. CASE CallWatchlist
  <2>1. analysis' = analysis /\ UNCHANGED <<modal, execution, outcome, activeTrade, requests, desk, opened>>
    BY <1>7 DEF CallWatchlist, tradingVars, serverVars
  <2> QED BY <1>0, <2>1, LookKeeps
<1>8. CASE OpenTradeModal \/ CloseTradeModal
  <2>1. /\ modal' \in Symbols
        /\ UNCHANGED <<analysis, execution, outcome, activeTrade, requests, desk, opened>>
    BY <1>0, <1>8 DEF OpenTradeModal, CloseTradeModal, shownVars, serverVars
  <2>2. opened \subseteq opened'
    BY <2>1
  <2> QED BY <2>1, <2>2, PageRealKeeps DEF ServerReal, PageTypes
<1>9. CASE CancelTradeModal
  <2>1. /\ modal' = NoSymbol /\ resetTrade /\ analysis' = analysis
        /\ UNCHANGED <<activeTrade, requests, serverVars>>
    BY <1>9 DEF CancelTradeModal, shownVars
  <2> QED BY <1>0, <2>1, ResetKeeps
<1>10. CASE AnalyzeAgain
  <2>1. /\ modal' = NoSymbol /\ resetTrade /\ analysis' = analysis
        /\ UNCHANGED <<activeTrade, requests, serverVars>>
    BY <1>10 DEF AnalyzeAgain, loadSelected
  <2> QED BY <1>0, <2>1, ResetKeeps
<1>11. CASE LeaveDesk
  BY <1>0, <1>11, ResetKeeps DEF LeaveDesk
<1>12. ASSUME NEW r \in RequestSlots, ConfirmTrade(r) PROVE DeskInv'
  <2>1. NoAnswer \in Answer /\ NoAnswer.code = "none"
    BY DEF NoAnswer, Answer, Symbols
  <2> DEFINE call == [NoCall EXCEPT !.symbol = modal]
  <2>2. call \in [symbol: Symbols, answer: Answer] /\ call.answer = NoAnswer
    BY <1>0, <2>1 DEF NoCall
  <2>3. /\ execution' = "sending" /\ outcome' = NoAnswer
        /\ requests' = [requests EXCEPT ![r] = call]
        /\ UNCHANGED <<modal, activeTrade, analysis, desk, opened>>
    BY <1>12 DEF ConfirmTrade, shownVars, serverVars
  <2> HIDE DEF call
  <2>4. /\ requests' \in [RequestSlots -> [symbol: Symbols, answer: Answer]]
        /\ requests'[r] = call /\ \A q \in RequestSlots : q # r => requests'[q] = requests[q]
    BY <2>2, <2>3 DEF PageTypes
  <2>5. ServerReal' /\ PageTypes'
    BY <2>1, <2>3, <2>4 DEF ServerReal, PageTypes
  <2>6. PageReal'
    BY <2>1, <2>2, <2>3, <2>4 DEF PageReal, AnswerReal
  <2> QED BY <2>5, <2>6
<1> QED BY <1>3, <1>4, <1>5, <1>6, <1>7, <1>8, <1>9, <1>10, <1>11, <1>12 DEF Owner

\* An analysis that is answered, or not.
LEMMA LoadKeeps ==
  ASSUME DeskInv, NEW call \in loads, LoadAnswered(call) \/ LoadEnds(call)
  PROVE  DeskInv'
<1> USE DEF DeskInv
<1>1. UNCHANGED <<modal, execution, outcome, activeTrade, requests>>
  BY DEF LoadAnswered, LoadEnds, tradingVars
<1>2. CASE LoadAnswered(call)
  <2>1. call.symbol \in DeskSymbols /\ analysis' \in Symbols
    BY <1>2 DEF LoadAnswered, apply, PageTypes, Symbols
  <2>2. ServerReal' /\ opened \subseteq opened'
    <3>1. CASE UNCHANGED serverVars
      BY <3>1 DEF serverVars, ServerReal
    <3>2. CASE \E plan \in analyses(call.symbol) : store(call.symbol, plan, FALSE)
      <4>1. PICK plan \in analyses(call.symbol) : store(call.symbol, plan, FALSE)
        BY <3>2
      <4>2. PICK computed \in Plans!FreshComputed : plan \in persisted(call.symbol, computed)
        BY DEF analyses
      <4>3. plan \in DeskPlan /\ PlanReal(call.symbol, plan, opened)
        BY <2>1, <4>2, PersistedReal
      <4> QED BY <2>1, <4>1, <4>3, StoreReal DEF PlanReal
    <3> QED BY <1>2, <3>1, <3>2 DEF LoadAnswered
  <2> QED BY <1>1, <2>1, <2>2, PageRealKeeps DEF PageTypes
<1>3. CASE LoadEnds(call)
  <2>1. analysis' \in Symbols /\ UNCHANGED <<desk, opened>>
    BY <1>3 DEF LoadEnds, serverVars, PageTypes
  <2> QED BY <1>1, <2>1, LookKeeps
<1> QED BY <1>2, <1>3

\* A trade that is served, answered, or neither.
LEMMA TradeKeeps ==
  ASSUME DeskInv, NEW r \in RequestSlots, TradeServed(r) \/ TradeAnswered(r)
  PROVE  DeskInv'
<1> USE DEF DeskInv
<1>0. /\ requests[r] \in [symbol: Symbols, answer: Answer] /\ AnswerReal(requests[r].answer, opened)
      /\ notExecuted(requests[r].symbol) \in Answer /\ notExecuted(requests[r].symbol).code = "failed"
  BY DEF PageTypes, PageReal, notExecuted, answerFor, Answer
<1>1. CASE TradeServed(r)
  <2> DEFINE s == requests[r].symbol
  <2>1. PICK e \in executions(s) : store(s, e.plan, e.opens) /\ requests' = [requests EXCEPT ![r].answer = e.answer]
    BY <1>1 DEF TradeServed
  <2>2. s \in DeskSymbols /\ UNCHANGED <<analysis, modal, execution, outcome, activeTrade>>
    BY <1>1 DEF TradeServed, shownVars
  <2>3. ServedReal(s, e)
    BY <2>2, ExecutionReal
  <2>4. ServerReal' /\ opened \subseteq opened' /\ (e.opens => <<s, e.plan.candle>> \in opened')
    BY <2>1, <2>2, <2>3, StoreReal DEF ServedReal
  <2>5. /\ requests' \in [RequestSlots -> [symbol: Symbols, answer: Answer]]
        /\ (requests'[r]).answer = e.answer /\ \A q \in RequestSlots : q # r => requests'[q] = requests[q]
    BY <1>0, <2>1, <2>3 DEF PageTypes, ServedReal
  <2>6. AnswerReal(e.answer, opened')
    BY <2>3, <2>4 DEF ServedReal, AnswerReal
  <2>7. PageTypes'
    BY <2>2, <2>5 DEF PageTypes
  <2>8. PageReal'
    BY <2>2, <2>4, <2>5, <2>6 DEF PageReal, AnswerReal
  <2> QED BY <2>4, <2>7, <2>8
<1>2. CASE TradeAnswered(r)
  <2>1. PICK answer \in {requests[r].answer, notExecuted(requests[r].symbol)} \ {NoAnswer} :
          /\ outcome' = answer
          /\ execution' = IF confirmed(answer) THEN "success" ELSE "failed"
          /\ activeTrade' = IF confirmed(answer) THEN answer ELSE activeTrade
    BY <1>2 DEF TradeAnswered
  <2>2. requests' = [requests EXCEPT ![r] = NoCall] /\ UNCHANGED <<analysis, modal, desk, opened>>
    BY <1>2 DEF TradeAnswered, shownVars, serverVars
  <2>3. answer \in Answer /\ AnswerReal(answer, opened)
    BY <1>0, <2>1 DEF AnswerReal
  <2>4. NoCall \in [symbol: Symbols, answer: Answer] /\ NoCall.answer.code = "none"
    BY DEF NoCall, NoAnswer, Answer, Symbols
  <2>5. /\ requests' \in [RequestSlots -> [symbol: Symbols, answer: Answer]]
        /\ requests'[r] = NoCall /\ \A q \in RequestSlots : q # r => requests'[q] = requests[q]
    BY <2>2, <2>4 DEF PageTypes
  <2>6. ServerReal' /\ PageTypes'
    BY <2>1, <2>2, <2>3, <2>5 DEF ServerReal, PageTypes
  <2>7. PageReal'
    BY <2>1, <2>2, <2>3, <2>4, <2>5 DEF PageReal, AnswerReal, confirmed
  <2> QED BY <2>6, <2>7
<1> QED BY <1>1, <1>2

\* What the modal shows in green and the trade shown as active are positions
\* that MT5 has, or had, whatever is answered late, lost or done elsewhere.
THEOREM DeskOpenedShownIsReal == DeskSpec => []OpenedShownIsReal
<1>1. DeskInit => DeskInv
  <2> SUFFICES ASSUME DeskInit PROVE DeskInv
    OBVIOUS
  <2>1. NoAnswer \in Answer /\ NoAnswer.code = "none"
    BY DEF NoAnswer, Answer, Symbols
  <2>2. NoCall \in [symbol: Symbols, answer: Answer] /\ NoCall.answer = NoAnswer
    BY <2>1 DEF NoCall, Symbols
  <2>3. [candle |-> 0, row |-> Plans!NoRow] \in DeskPlan /\ Plans!NoRow.status # "EXECUTED"
    BY DEF DeskPlan, Plans!NoRow, Plans!Absent, Plans!NoKey
  <2>4. ServerReal
    BY <2>3 DEF DeskInit, ServerReal, PlanReal
  <2>5. PageTypes /\ PageReal
    BY <2>1, <2>2 DEF DeskInit, PageTypes, PageReal, AnswerReal, Symbols
  <2> QED BY <2>4, <2>5 DEF DeskInv
<1>2. ASSUME DeskInv, [DeskNext]_deskVars PROVE DeskInv'
  <2>1. CASE RefreshLightweight
    <3>1. analysis' = analysis /\ UNCHANGED <<modal, execution, outcome, activeTrade, requests, desk, opened>>
      BY <2>1 DEF RefreshLightweight, loadSelected, tradingVars, serverVars
    <3> QED BY <1>2, <3>1, LookKeeps DEF DeskInv, PageTypes
  <2>2. CASE UNCHANGED deskVars
    <3>1. analysis' = analysis /\ UNCHANGED <<modal, execution, outcome, activeTrade, requests, desk, opened>>
      BY <2>2 DEF deskVars, shownVars, tradingVars, serverVars
    <3> QED BY <1>2, <3>1, LookKeeps DEF DeskInv, PageTypes
  <2> QED BY <1>2, <2>1, <2>2, OwnerKeeps, LoadKeeps, TradeKeeps, ServerKeeps DEF DeskNext
<1>3. DeskInv => OpenedShownIsReal
  BY DEF DeskInv, PageReal, AnswerReal, OpenedShownIsReal
<1> QED BY <1>1, <1>2, <1>3, PTL DEF DeskSpec

-----------------------------------------------------------------------------
(* The AI Trade page.                                                      *)

RowKnown(row) == row.status \in Row!PlanStatus \cup {Row!Absent}

RowsKnown ==
  /\ rows = [p \in PagePlans |-> rows[p]]
  /\ \A p \in PagePlans : RowKnown(rows[p])

\* An answer about plan p, whose row is row now, when MT5 has had orders of se.
AnswerOf(answer, p, row, se) ==
  /\ answer.of = p /\ answer.code # "none"
  /\ answer.allowed /\ answer.code # "PENDING_CONFIRMATION" =>
       p \in se \/ Finished(row) \/ answer.status = "WAITING_FOR_APPROVAL"
  /\ answer.code = "ALREADY_PLACED" => p \in se

\* The approval in flight, the outcome shown and the polling, each about one
\* plan, with an answer about it or none yet.
SendingOK ==
  sending # NoRequest =>
    /\ sending = [of |-> sending.of, answer |-> sending.answer]
    /\ sending.of \in PagePlans
    /\ sending.answer = Nothing \/ AnswerOf(sending.answer, sending.of, rows[sending.of], sent)

VerdictOK ==
  verdict # Nothing => verdict.of \in PagePlans /\ AnswerOf(verdict, verdict.of, rows[verdict.of], sent)

PollOK ==
  poll # PollOff =>
    /\ poll = [pc |-> poll.pc, of |-> poll.of, answer |-> poll.answer]
    /\ poll.pc \in {"asking", "timer"} /\ poll.of \in PagePlans
    /\ poll.answer = Nothing \/ AnswerOf(poll.answer, poll.of, rows[poll.of], sent)

\* What an answer speaks of lasts: MT5 has had what it had, and a plan that
\* cannot be approved again stays so.
Lasting ==
  /\ sent \subseteq sent'
  /\ \A p \in PagePlans : Finished(rows[p]) => Finished(rows'[p])

\* OneConversation is not inductive: whoever closes the dialog must know that
\* nothing is polled for, which is so because the page does not poll once it
\* has given up, and an approval starts with a page that has not.
Conversation ==
  /\ sending # NoRequest => ~gaveUp
  /\ poll # PollOff => ~gaveUp
  /\ OneConversation

\* The inductive invariant of the page.
PageInv == RowsKnown /\ SendingOK /\ VerdictOK /\ PollOK /\ Conversation

LEMMA PageStarts == PageInit => PageInv
<1> SUFFICES ASSUME PageInit PROVE PageInv
  OBVIOUS
<1>1. RowsKnown
  BY DEF PageInit, RowsKnown, RowKnown, Row!NoRow, Row!Unlocked
<1>2. SendingOK /\ VerdictOK /\ PollOK
  BY DEF PageInit, SendingOK, VerdictOK, PollOK
<1>3. Conversation
  BY DEF PageInit, Conversation, OneConversation, Confirming, Nothing
<1> QED BY <1>1, <1>2, <1>3 DEF PageInv

\* What is in an answer that may have left an order at MT5.
LEMMA SentOrNot ==
  ASSUME NEW row, NEW answer, NEW a \in sentOrNot(row, answer)
  PROVE  a.row = row /\ a.answer = answer
BY DEF sentOrNot

\* What an approval does to the row, and answers.
LEMMA ApprovalReal ==
  ASSUME RowsKnown, NEW p \in PagePlans, NEW a \in approvals(p)
  PROVE  LET se == IF a.order THEN sent \cup {p} ELSE sent
         IN  /\ RowKnown(a.row) /\ (Finished(rows[p]) => Finished(a.row))
             /\ AnswerOf(a.answer, p, a.row, se)
<1> DEFINE se == IF a.order THEN sent \cup {p} ELSE sent
           good == RowKnown(a.row) /\ AnswerOf(a.answer, p, a.row, se)
<1> SUFFICES good /\ (Finished(rows[p]) => Finished(a.row))
  OBVIOUS
<1>1. ASSUME a \in claimedAnswers(p) PROVE good
  <2> DEFINE refused  == {[row |-> row, order |-> FALSE, answer |-> ended(p, row)] : row \in refusedRows}
             accepted == UNION {sentOrNot(row, outcomeOf(p, TRUE, "null", row)) : row \in placedRows}
             settled  == UNION {sentOrNot(row, ended(p, row)) : row \in settledRows}
             exception == sentOrNot(Row!failed("other"), requestFailed(p))
  <2>1. a \in refused \cup accepted \cup settled \cup unconfirmed(p) \cup exception
    BY <1>1, Zenon DEF claimedAnswers
  <2>2. CASE a \in refused
    BY <2>2 DEF AnswerOf, outcomeOf, ended, refusedRows, RowKnown, Row!PlanStatus, Row!Unlocked, Row!failed
  <2>3. CASE a \in accepted
    <3>1. PICK row \in placedRows : a \in sentOrNot(row, outcomeOf(p, TRUE, "null", row))
      BY <2>3
    <3>2. row.status \in {"PENDING_ORDER_PLACED", "POSITION_OPEN"}
      BY <3>1 DEF placedRows, Row!placed, Row!opened, Row!Unlocked
    <3>3. a.row = row /\ a.answer = outcomeOf(p, TRUE, "null", row)
      BY <3>1, SentOrNot
    <3> QED BY <3>2, <3>3 DEF AnswerOf, outcomeOf, RowKnown, Row!PlanStatus, Finished, Row!Settled
  <2>4. CASE a \in settled
    <3>1. PICK row \in settledRows : a \in sentOrNot(row, ended(p, row))
      BY <2>4
    <3>2. a.row = row /\ a.answer = ended(p, row)
      BY <3>1, SentOrNot
    <3> QED BY <3>2 DEF AnswerOf, outcomeOf, ended, settledRows, RowKnown, Row!PlanStatus, Row!Unlocked, Row!failed
  <2>5. CASE a \in unconfirmed(p)
    <3>1. submitting.status = "PENDING_ORDER_SUBMITTING"
      BY DEF submitting, Row!Unlocked
    <3>2. a.row = submitting /\ a.answer \in {outcomeOf(p, TRUE, "PENDING_CONFIRMATION", submitting),
                                            outcomeOf(p, FALSE, "EXECUTION_UNCONFIRMED", submitting)}
      BY <2>5, SentOrNot DEF unconfirmed
    <3> QED BY <3>1, <3>2 DEF AnswerOf, outcomeOf, RowKnown, Row!PlanStatus
  <2>6. CASE a \in exception
    BY <2>6 DEF AnswerOf, outcomeOf, sentOrNot, RowKnown, Row!PlanStatus, Row!Unlocked, Row!failed, requestFailed,
                Row!NoRow, Row!Absent
  <2> HIDE DEF refused, accepted, settled, exception
  <2> QED BY <2>1, <2>2, <2>3, <2>4, <2>5, <2>6
<1>2. ASSUME a \in alreadyPlaced(p) PROVE good
  <2>1. p \in sent
    BY <1>2 DEF alreadyPlaced
  <2>2. PICK found \in placedRows :
          a \in {[row |-> row, order |-> FALSE, answer |-> outcomeOf(p, TRUE, "ALREADY_PLACED", found)] :
                   row \in {found} \cup {r \in {rows[p]} : r.status = "PENDING_ORDER_SUBMITTING"}}
    BY <1>2, <2>1 DEF alreadyPlaced, foundAtMt5
  <2>3. RowKnown(rows[p]) /\ RowKnown(found)
    BY DEF RowsKnown, RowKnown, placedRows, Row!PlanStatus, Row!placed, Row!opened, Row!Unlocked
  <2> DEFINE told == outcomeOf(p, TRUE, "ALREADY_PLACED", found)
  <2> HIDE DEF told
  <2>4. PICK row \in {found, rows[p]} : a = [row |-> row, order |-> FALSE, answer |-> told]
    BY <2>2 DEF told
  <2> QED BY <2>1, <2>3, <2>4 DEF told, AnswerOf, outcomeOf
<1>3. ASSUME a = notClaimable(p) PROVE good
  BY <1>3 DEF AnswerOf, outcomeOf, notClaimable, RowsKnown
<1>4. Finished(rows[p]) => a = notClaimable(p)
  BY DEF approvals, Finished, Row!isApprovable, Row!Settled, Row!failed, Row!Unlocked
<1>5. a = notClaimable(p) => a.row = rows[p]
  BY DEF notClaimable
<1>6. a \in claimedAnswers(p) \cup alreadyPlaced(p) \cup {notClaimable(p)}
  BY DEF approvals
<1> HIDE DEF good
<1> QED BY <1>1, <1>2, <1>3, <1>4, <1>5, <1>6

\* A row that is written with what lasts.
LEMMA RowWritten ==
  ASSUME RowsKnown, NEW p \in PagePlans, NEW row, rows' = [rows EXCEPT ![p] = row],
         RowKnown(row), Finished(rows[p]) => Finished(row), sent \subseteq sent'
  PROVE  RowsKnown' /\ rows'[p] = row /\ Lasting
<1>1. rows' = [q \in PagePlans |-> rows'[q]]
  BY DEF RowsKnown
<1>2. rows'[p] = row /\ \A q \in PagePlans : q # p => rows'[q] = rows[q]
  BY DEF RowsKnown
<1> QED BY <1>1, <1>2 DEF RowsKnown, Lasting

\* What is in hand stays true.
LEMMA HandsKeep ==
  ASSUME PageInv, Lasting, UNCHANGED <<sending, verdict, poll, gaveUp>>
  PROVE  SendingOK' /\ VerdictOK' /\ PollOK' /\ Conversation'
<1>1. \A p \in PagePlans : \A answer : AnswerOf(answer, p, rows[p], sent) => AnswerOf(answer, p, rows'[p], sent')
  BY DEF Lasting, AnswerOf
<1>2. SendingOK'
  BY <1>1 DEF PageInv, SendingOK
<1>3. VerdictOK'
  BY <1>1 DEF PageInv, VerdictOK
<1>4. PollOK'
  BY <1>1 DEF PageInv, PollOK
<1>5. Conversation'
  BY DEF PageInv, Conversation, OneConversation, Confirming
<1> QED BY <1>2, <1>3, <1>4, <1>5

\* What timers, the watcher, MT5 and other browsers do.
LEMMA ApiKeeps ==
  ASSUME PageInv, Api
  PROVE  PageInv'
<1>1. UNCHANGED approvalVars
  BY DEF Api, Advance, OrderArrives, ApproveElsewhere
<1>2. Lasting /\ RowsKnown'
  <2>1. ASSUME NEW p \in PagePlans, Advance(p) PROVE Lasting /\ RowsKnown'
    <3>1. PICK row \in moved(p) : rows' = [rows EXCEPT ![p] = row]
      BY <2>1 DEF Advance
    <3>2. sent' = sent
      BY <2>1 DEF Advance
    <3>3. RowKnown(row) /\ (Finished(rows[p]) => Finished(row))
      <4> USE DEF RowKnown, Row!PlanStatus, Finished, Row!Settled, Row!Unlocked, Row!failed
      <4>1. CASE rows[p].status = "PENDING_ORDER_SUBMITTING"
        BY <4>1 DEF moved, Row!failed, Row!released, Row!placed, Row!opened
      <4>2. CASE rows[p].status = "PENDING_ORDER_PLACED"
        BY <4>2 DEF moved, Row!opened
      <4>3. CASE rows[p].status = "POSITION_OPEN"
        <5>1. row = Row!Unlocked("POSITION_CLOSED") \/ row = Row!failed("other")
          BY <4>3 DEF moved
        <5>2. row.status \in {"POSITION_CLOSED", "EXECUTION_FAILED"}
          BY <5>1
        <5>3. Finished(row)
          <6>1. CASE row = Row!failed("other")
            <7> HIDE DEF Row!failed
            <7> QED BY <6>1
          <6>2. CASE row = Row!Unlocked("POSITION_CLOSED")
            BY <5>2, <6>2
          <6> QED BY <5>1, <6>1, <6>2
        <5> HIDE DEF Finished
        <5> QED BY <5>2, <5>3
      <4>4. CASE rows[p].status = "WAITING_FOR_APPROVAL"
        <5>1. row = [Row!Unlocked("PLAN_EXPIRED") EXCEPT !.locked = rows[p].locked]
          BY <4>4 DEF moved, Row!expireUnapproved
        <5>2. row.status = "PLAN_EXPIRED"
          BY <5>1
        <5> QED BY <5>2
      <4> QED BY <4>1, <4>2, <4>3, <4>4 DEF moved
    <3> QED BY <3>1, <3>2, <3>3, RowWritten DEF PageInv
  <2>2. ASSUME NEW p \in PagePlans, OrderArrives(p) PROVE Lasting /\ RowsKnown'
    BY <2>2 DEF OrderArrives, PageInv, RowsKnown, Lasting
  <2>3. ASSUME NEW p \in PagePlans, ApproveElsewhere(p) PROVE Lasting /\ RowsKnown'
    <3>1. PICK a \in approvals(p) : settle(p, a)
      BY <2>3 DEF ApproveElsewhere
    <3>2. sent \subseteq sent' /\ rows' = [rows EXCEPT ![p] = a.row]
      BY <3>1 DEF settle
    <3>3. RowKnown(a.row) /\ (Finished(rows[p]) => Finished(a.row))
      BY <3>1, ApprovalReal DEF PageInv
    <3> QED BY <3>2, <3>3, RowWritten DEF PageInv
  <2> QED BY <2>1, <2>2, <2>3 DEF Api
<1> QED BY <1>1, <1>2, HandsKeep DEF approvalVars, PageInv

\* What the owner does away from the dialog, and the answers of analyses and
\* scans; the dialog may open.
LEMMA AnalysisKeeps ==
  ASSUME PageInv, UNCHANGED <<sending, verdict, poll, gaveUp, sent>>,
         UNCHANGED rows \/ \E a \in asking : AnalysisAnswered(a)
  PROVE  PageInv'
<1>1. RowsKnown' /\ Lasting
  <2>1. CASE UNCHANGED rows
    BY <2>1 DEF PageInv, RowsKnown, Lasting
  <2>2. CASE \E a \in asking : AnalysisAnswered(a)
    <3>1. PICK a \in asking : AnalysisAnswered(a)
      BY <2>2
    <3>2. CASE UNCHANGED rows
      BY <3>2 DEF PageInv, RowsKnown, Lasting
    <3>3. ASSUME NEW p \in PagePlans, NEW s \in {"WAITING_FOR_APPROVAL", "RISK_BLOCKED"},
                 rows[p] = Row!NoRow, rows' = [rows EXCEPT ![p] = Row!Unlocked(s)]
          PROVE  RowsKnown' /\ Lasting
      <4>1. RowKnown(Row!Unlocked(s)) /\ ~Finished(rows[p])
        BY <3>3 DEF RowKnown, Row!PlanStatus, Finished, Row!Settled, Row!failed, Row!NoRow, Row!Unlocked, Row!Absent
      <4> QED BY <3>3, <4>1, RowWritten DEF PageInv
    <3> QED BY <3>1, <3>2, <3>3 DEF AnalysisAnswered
  <2> QED BY <2>1, <2>2
<1> QED BY <1>1, HandsKeep DEF PageInv

\* The approval: sent, served, answered.
LEMMA ApproveKeeps ==
  ASSUME PageInv, ConfirmPlace \/ ApproveServed \/ ApproveAnswered
  PROVE  PageInv'
<1> USE DEF PageInv
<1>1. CASE ConfirmPlace
  <2>1. /\ sending' = [of |-> shown.plan, answer |-> Nothing] /\ shown.plan \in PagePlans
        /\ sending = NoRequest /\ verdict = Nothing /\ gaveUp' = FALSE
        /\ UNCHANGED <<verdict, poll, rows, sent>>
    BY <1>1 DEF ConfirmPlace
  <2>2. RowsKnown' /\ VerdictOK' /\ PollOK'
    BY <2>1 DEF RowsKnown, VerdictOK, PollOK
  <2>3. SendingOK'
    BY <2>1 DEF SendingOK
  <2>4. poll = PollOff
    BY <2>1 DEF Conversation, OneConversation, Confirming, Nothing
  <2>5. Conversation'
    BY <2>1, <2>4 DEF Conversation, OneConversation, Confirming, Nothing
  <2> QED BY <2>2, <2>3, <2>5
<1>2. CASE ApproveServed
  <2>1. /\ sending # NoRequest /\ UNCHANGED <<verdict, poll, gaveUp>>
        /\ sending = [of |-> sending.of, answer |-> sending.answer] /\ sending.of \in PagePlans
    BY <1>2 DEF ApproveServed, SendingOK
  <2>2. PICK a \in approvals(sending.of) :
          settle(sending.of, a) /\ sending' = [sending EXCEPT !.answer = a.answer]
    BY <1>2 DEF ApproveServed
  <2>3. /\ sending' = [of |-> sending.of, answer |-> a.answer]
        /\ sending'.of = sending.of /\ sending'.answer = a.answer
    BY <2>1, <2>2
  <2>4. sent \subseteq sent' /\ rows' = [rows EXCEPT ![sending.of] = a.row]
    BY <2>2 DEF settle
  <2>5. /\ RowKnown(a.row) /\ (Finished(rows[sending.of]) => Finished(a.row))
        /\ AnswerOf(a.answer, sending.of, a.row, sent')
    BY <2>1, <2>2, ApprovalReal DEF settle
  <2>6. RowsKnown' /\ rows'[sending.of] = a.row /\ Lasting
    BY <2>1, <2>4, <2>5, RowWritten
  <2>7. SendingOK'
    BY <2>1, <2>3, <2>5, <2>6 DEF SendingOK
  <2>8. VerdictOK' /\ PollOK'
    BY <2>1, <2>6 DEF VerdictOK, PollOK, AnswerOf, Lasting
  <2>9. Conversation'
    BY <2>1 DEF Conversation, OneConversation, Confirming
  <2> QED BY <2>6, <2>7, <2>8, <2>9
<1>3. CASE ApproveAnswered
  <2>1. /\ sending # NoRequest /\ sending' = NoRequest /\ UNCHANGED <<gaveUp, rows, sent>>
        /\ verdict' \in {sending.answer, requestFailed(sending.of)} \ {Nothing}
        /\ poll' = IF verdict'.code = "PENDING_CONFIRMATION"
                   THEN [PollOff EXCEPT !.pc = "asking", !.of = sending.of] ELSE poll
    BY <1>3 DEF ApproveAnswered
  <2>2. sending.of \in PagePlans /\ poll = PollOff /\ ~gaveUp
    BY <2>1 DEF SendingOK, Conversation, OneConversation
  <2>3. AnswerOf(verdict', sending.of, rows[sending.of], sent)
    <3>1. AnswerOf(requestFailed(sending.of), sending.of, rows[sending.of], sent)
      BY DEF AnswerOf, requestFailed, outcomeOf
    <3> QED BY <2>1, <3>1 DEF SendingOK
  <2>4. RowsKnown' /\ SendingOK'
    BY <2>1 DEF RowsKnown, SendingOK
  <2>5. VerdictOK'
    BY <2>1, <2>2, <2>3 DEF VerdictOK, AnswerOf
  <2>6. CASE verdict'.code = "PENDING_CONFIRMATION"
    <3>1. /\ poll' = [pc |-> "asking", of |-> sending.of, answer |-> Nothing] /\ poll' # PollOff
          /\ poll'.pc = "asking" /\ poll'.of = sending.of /\ poll'.answer = Nothing
      BY <2>1, <2>6 DEF PollOff
    <3>2. PollOK'
      BY <2>2, <3>1 DEF PollOK
    <3>3. Conversation'
      BY <2>1, <2>2, <2>3, <2>6, <3>1 DEF Conversation, OneConversation, Confirming, AnswerOf
    <3> QED BY <2>4, <2>5, <3>2, <3>3
  <2>7. CASE verdict'.code # "PENDING_CONFIRMATION"
    <3>1. poll' = PollOff
      BY <2>1, <2>2, <2>7
    <3>2. PollOK' /\ Conversation'
      BY <2>1, <2>2, <2>7, <3>1 DEF PollOK, Conversation, OneConversation, Confirming
    <3> QED BY <2>4, <2>5, <3>2
  <2> QED BY <2>6, <2>7
<1> QED BY <1>1, <1>2, <1>3

\* The polling, the close button and another page.
LEMMA PollKeeps ==
  ASSUME PageInv, PollServed \/ PollAnswered \/ PollTimer \/ CloseDialog \/ LeavePage
  PROVE  PageInv'
<1> USE DEF PageInv
<1>0. RowsKnown' /\ UNCHANGED <<rows, sent>>
  BY DEF PollServed, PollAnswered, PollTimer, CloseDialog, LeavePage, RowsKnown
<1>1. CASE PollServed
  <2>1. /\ poll.pc = "asking" /\ poll # PollOff
        /\ poll = [pc |-> poll.pc, of |-> poll.of, answer |-> poll.answer]
        /\ poll.of \in PagePlans /\ poll' = [poll EXCEPT !.answer = statusOf(poll.of)]
        /\ UNCHANGED <<sending, verdict, gaveUp>>
    BY <1>1 DEF PollServed, PollOK, PollOff
  <2>2. /\ poll' = [pc |-> "asking", of |-> poll.of, answer |-> statusOf(poll.of)] /\ poll' # PollOff
        /\ poll'.pc = "asking" /\ poll'.of = poll.of /\ poll'.answer = statusOf(poll.of)
    BY <2>1 DEF PollOff
  <2>3. AnswerOf(statusOf(poll.of), poll.of, rows[poll.of], sent)
    <3>1. RowKnown(rows[poll.of])
      BY <2>1 DEF RowsKnown
    <3> QED BY <3>1 DEF statusOf, AnswerOf, outcomeOf, RowKnown, Row!PlanStatus, Row!Absent, Finished, Row!Settled
  <2>4. PollOK'
    BY <1>0, <2>1, <2>2, <2>3 DEF PollOK
  <2>5. SendingOK' /\ VerdictOK'
    BY <1>0, <2>1 DEF SendingOK, VerdictOK
  <2>6. Conversation'
    BY <2>1, <2>2 DEF Conversation, OneConversation, Confirming
  <2> QED BY <1>0, <2>4, <2>5, <2>6
<1>2. CASE PollAnswered
  <2>1. /\ poll.pc = "asking" /\ poll # PollOff /\ verdict' \in {poll.answer, verdict} \ {Nothing}
        /\ UNCHANGED <<sending, rows, sent>>
    BY <1>2 DEF PollAnswered, PollOff
  <2>2. /\ Confirming /\ verdict.of = poll.of /\ ~gaveUp /\ poll.of \in PagePlans
        /\ sending = NoRequest
    BY <2>1 DEF Conversation, OneConversation, PollOK
  <2>3. verdict # Nothing
    BY <2>2 DEF Confirming, Nothing
  <2>4. AnswerOf(verdict', poll.of, rows[poll.of], sent)
    BY <2>1, <2>2, <2>3 DEF VerdictOK, PollOK
  <2>5. SendingOK' /\ VerdictOK'
    BY <2>1, <2>2, <2>4 DEF SendingOK, VerdictOK, AnswerOf
  <2>6. CASE verdict'.code # "PENDING_CONFIRMATION"
    BY <1>0, <1>2, <2>2, <2>1, <2>5, <2>6 DEF PollAnswered, PollOK, Conversation, OneConversation, Confirming
  <2>7. CASE poll' = [PollOff EXCEPT !.pc = "timer", !.of = poll.of] /\ UNCHANGED gaveUp
             /\ verdict'.code = "PENDING_CONFIRMATION"
    <3>1. /\ poll' = [pc |-> "timer", of |-> poll.of, answer |-> Nothing] /\ poll' # PollOff
          /\ poll'.pc = "timer" /\ poll'.of = poll.of /\ poll'.answer = Nothing
      BY <2>7 DEF PollOff
    <3>2. PollOK'
      BY <2>2, <3>1 DEF PollOK
    <3>3. Conversation'
      BY <2>1, <2>2, <2>4, <2>7, <3>1 DEF Conversation, OneConversation, Confirming, AnswerOf
    <3> QED BY <1>0, <2>5, <3>2, <3>3
  <2>8. CASE poll' = PollOff /\ gaveUp' = TRUE /\ verdict'.code = "PENDING_CONFIRMATION"
    BY <1>0, <2>1, <2>2, <2>5, <2>8 DEF PollOK, Conversation, OneConversation, Confirming
  <2> QED BY <1>2, <2>6, <2>7, <2>8 DEF PollAnswered
<1>3. CASE PollTimer
  <2>1. /\ poll.pc = "timer" /\ poll # PollOff
        /\ poll = [pc |-> poll.pc, of |-> poll.of, answer |-> poll.answer]
        /\ poll.of \in PagePlans /\ Confirming /\ UNCHANGED <<sending, verdict, gaveUp>>
    BY <1>3 DEF PollTimer, PollOK, PollOff, Conversation, OneConversation
  <2>2. poll' = [poll EXCEPT !.pc = "asking"]
    BY <1>3, <2>1 DEF PollTimer
  <2>3. /\ poll' = [pc |-> "asking", of |-> poll.of, answer |-> poll.answer] /\ poll' # PollOff
        /\ poll'.pc = "asking" /\ poll'.of = poll.of /\ poll'.answer = poll.answer
    BY <2>1, <2>2 DEF PollOff
  <2>4. PollOK'
    BY <1>0, <2>1, <2>3 DEF PollOK
  <2>5. SendingOK' /\ VerdictOK'
    BY <1>0, <2>1 DEF SendingOK, VerdictOK
  <2>6. Conversation'
    BY <2>1, <2>3 DEF Conversation, OneConversation, Confirming
  <2> QED BY <1>0, <2>4, <2>5, <2>6
<1>4. CASE CloseDialog
  <2>1. verdict # Nothing /\ (Confirming => gaveUp) /\ verdict' = Nothing /\ UNCHANGED <<sending, gaveUp>>
    BY <1>4 DEF CloseDialog, CanClose
  <2>2. poll = PollOff /\ sending = NoRequest
    BY <2>1 DEF Conversation, OneConversation
  <2>3. poll' = PollOff
    BY <1>4, <2>2 DEF CloseDialog
  <2>4. SendingOK' /\ VerdictOK' /\ PollOK'
    BY <2>1, <2>2, <2>3 DEF SendingOK, VerdictOK, PollOK
  <2>5. Conversation'
    BY <2>1, <2>2, <2>3 DEF Conversation, OneConversation, Confirming, Nothing
  <2> QED BY <1>0, <2>4, <2>5
<1>5. CASE LeavePage
  <2>1. sending' = NoRequest /\ verdict' = Nothing /\ poll' = PollOff
    BY <1>5 DEF LeavePage
  <2> QED BY <1>0, <2>1 DEF SendingOK, VerdictOK, PollOK, Conversation, OneConversation, Confirming, Nothing
<1> QED BY <1>1, <1>2, <1>3, <1>4, <1>5

LEMMA PageKeeps == PageInv /\ [PageNext]_pageVars => PageInv'
<1> SUFFICES ASSUME PageInv, [PageNext]_pageVars PROVE PageInv'
  OBVIOUS
<1>1. CASE Api
  BY <1>1, ApiKeeps
<1>2. CASE ConfirmPlace \/ ApproveServed \/ ApproveAnswered
  BY <1>2, ApproveKeeps
<1>3. CASE PollServed \/ PollAnswered \/ PollTimer \/ CloseDialog \/ LeavePage
  BY <1>3, PollKeeps
<1>4. ASSUME NEW symbol, NEW place, askFor(symbol, place) PROVE PageInv'
  BY <1>4, AnalysisKeeps DEF askFor, approvalVars
<1>5. ASSUME NEW s \in PageSymbols, SelectSymbol(s) \/ ViewCard(s) \/ PlaceCard(s) PROVE PageInv'
  <2>1. CASE SelectSymbol(s)
    BY <2>1, AnalysisKeeps DEF SelectSymbol, approvalVars
  <2> QED BY <1>4, <1>5, <2>1 DEF ViewCard, PlaceCard
<1>6. CASE AnalyzeSelected
  BY <1>4, <1>6 DEF AnalyzeSelected
<1>7. CASE FindBestTrades \/ ScanAnswered
  BY <1>7, AnalysisKeeps DEF FindBestTrades, ScanAnswered, approvalVars
<1>8. ASSUME NEW a \in asking, AnalysisAnswered(a) \/ AnalysisFails(a) PROVE PageInv'
  <2>1. UNCHANGED <<sending, verdict, poll, gaveUp, sent>> /\ (UNCHANGED rows \/ AnalysisAnswered(a))
    BY <1>8 DEF AnalysisAnswered, AnalysisFails
  <2> QED BY <2>1, AnalysisKeeps
<1>9. CASE OpenDialog \/ CancelDialog
  BY <1>9, AnalysisKeeps DEF OpenDialog, CancelDialog
<1>10. CASE UNCHANGED pageVars
  BY <1>10, AnalysisKeeps DEF pageVars, approvalVars
<1> QED BY <1>1, <1>2, <1>3, <1>5, <1>6, <1>7, <1>8, <1>9, <1>10 DEF PageNext

\* One approval at a time, one outcome on the page, and polling as long as it
\* is unconfirmed, however late and in whatever order the answers arrive.
THEOREM PageOneConversation == PageSpec => []OneConversation
<1>1. PageInv => OneConversation
  BY DEF PageInv, Conversation
<1> QED BY PageStarts, PageKeeps, <1>1, PTL DEF PageSpec

\* Whatever a dialog says was placed is about a plan that MT5 has had an order
\* of, or whose row no approval takes up again, unless the plan was released
\* while the page polled for it; "already placed" is about its own order.
THEOREM PagePlacedShownIsReal == PageSpec => []PlacedShownIsReal
<1>1. PageInv => PlacedShownIsReal
  BY DEF PageInv, PlacedShownIsReal, SaysPlaced, Confirming, VerdictOK, AnswerOf
<1> QED BY PageStarts, PageKeeps, <1>1, PTL DEF PageSpec
=============================================================================
