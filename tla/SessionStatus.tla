---------------------------- MODULE SessionStatus ----------------------------
(***************************************************************************)
(* Whether a symbol can be traded now (services/trading-engine/mt5/        *)
(* session_status.py): evaluate_symbol_session() finds a session schedule  *)
(* in the MT5 API, the MQL5 bridge file, the M1 history or its own cache   *)
(* file, in that order, keeps what it found in the cache, and compares the *)
(* clock with it.                                                          *)
(*                                                                         *)
(* A week has WeekDays days of DayLength slots.  A window is a record      *)
(* [day, from, to, kind]; one with from > to runs past midnight.  Windows  *)
(* and bars are in the time of the broker's server, which runs ServerAhead *)
(* slots ahead of the UTC clock that the code takes for it (server_now =   *)
(* now; routers/mt5.py:562-577).                                           *)
(***************************************************************************)
EXTENDS Integers, FiniteSets, FiniteSetsExt

CONSTANTS
  WeekDays,     \* days of the week
  DayLength,    \* slots of a day
  ServerAhead,  \* slots by which the broker's server clock runs ahead
  Gap,          \* the slots without a bar that end a session, 15 minutes in the code
  Schedule,     \* the broker's windows
  BarSets       \* sets of <<day, slot>> that may have an M1 bar

Days == 0 .. WeekDays - 1
Slots == 0 .. DayLength - 1
Windows == [day : Days, from : Slots, to : 0 .. DayLength, kind : {"trade", "quote"}]

ASSUME SessionAssumption ==
  /\ WeekDays \in Nat \ {0} /\ DayLength \in Nat \ {0} /\ {ServerAhead, Gap} \subseteq Nat
  /\ Schedule \subseteq Windows /\ BarSets \subseteq SUBSET (Days \X Slots)

VARIABLES
  clock,          \* day and slot of the UTC clock of the process
  trade_enabled,
  cache,          \* the windows that the cache file has of the symbol; none while it cannot be parsed
  report          \* the answer that is being given

sessionVars == <<clock, trade_enabled, cache, report>>

NoReport == [market |-> "NONE"]

SessionInit ==
  /\ clock \in Days \X Slots
  /\ trade_enabled = TRUE /\ cache = {} /\ report = NoReport

\* symbol_info_session_trade() and then _quote(), day by day, each day until a call
\* gives None, which a failing one does too.
ApiAnswers ==
  {S \in SUBSET Schedule :
     \A w \in S, v \in Schedule : v.day = w.day /\ v.kind = w.kind /\ v.from < w.from => v \in S}

BridgeAnswers == {{}, Schedule}

\* _minute_sessions: both kinds, up to the last slot of the day.
minuteSessions(day, open, close) ==
  {[day |-> day, from |-> open, to |-> IF Min({DayLength, close}) <= open THEN DayLength ELSE Min({DayLength, close}),
    kind |-> kind] : kind \in {"trade", "quote"}}

\* The bars of one day, cut where more than Gap slots have none.
historicalOf(day, slots) ==
  LET starts == {s \in slots : \A t \in slots : t < s => s - t > Gap}
      lastOf(s) == Max({t \in slots : t >= s /\ \A u \in starts : u > s => t < u})
  IN UNION {minuteSessions(day, s, lastOf(s) + 1) : s \in starts}

historicalSessions(bars) ==
  LET found == UNION {historicalOf(day, {b[2] : b \in {c \in bars : c[1] = day}}) : day \in Days}
  IN IF Cardinality(found) >= 2 THEN found ELSE {}

HistoryAnswers == {historicalSessions(bars) : bars \in BarSets}

\* The schedule in force, from the first source that has one; kept is what the
\* cache file gave.
sessionsFrom(api, bridge, history, kept) ==
  CASE api # {} -> api
    [] api = {} /\ bridge # {} -> bridge
    [] api = {} /\ bridge = {} /\ history # {} -> history
    [] OTHER -> kept

\* mutant: the part of a window after midnight is forgotten
sessionMatchSameDay(sessions, day, slot, kind) ==
  \E w \in sessions : w.kind = kind /\ w.day = day /\ w.from <= slot /\ (slot < w.to \/ w.from > w.to)

sessionMatch(sessions, day, slot, kind) ==
  \E w \in sessions :
    /\ w.kind = kind
    /\ \/ w.day = day /\ w.from <= w.to /\ w.from <= slot /\ slot < w.to
       \/ w.day = day /\ w.from > w.to /\ slot >= w.from
       \/ w.day = (day - 1) % WeekDays /\ w.from > w.to /\ slot < w.to

\* Slots until the next opening, looking at the coming WeekDays + 1 days;
\* -1 when no trade window is known.
nextTradeSession(sessions, day, slot) ==
  LET coming == {c \in (0 .. WeekDays) \X {w \in sessions : w.kind = "trade"} :
                   c[2].day = (day + c[1]) % WeekDays /\ (c[1] > 0 \/ c[2].from > slot)}
  IN IF coming = {} THEN -1 ELSE Min({c[1] * DayLength + c[2].from - slot : c \in coming})

marketStatus(sessions, enabled, day, slot) ==
  IF ~enabled THEN "TRADE_DISABLED"
  ELSE IF sessions = {} THEN "UNKNOWN"
  ELSE IF sessionMatch(sessions, day, slot, "trade") THEN "OPEN"
  ELSE IF sessionMatch(sessions, day, slot, "quote") THEN "QUOTE_ONLY"
  ELSE "CLOSED"

\* _save_cached_sessions() writes the file in place: what a live source gave replaces
\* what was kept; a file that cannot be opened stays; a write that breaks off leaves
\* none that can be parsed.
saveCached(fresh) == IF fresh = {} THEN {cache} ELSE {fresh, cache, {}}

\* evaluate_symbol_session() without symbol info or without a tick stops before the
\* schedule is read.  The file may be unreadable at the moment, as it is while the
\* request of another symbol rewrites it.
Evaluate ==
  /\ report = NoReport
  /\ UNCHANGED <<clock, trade_enabled>>
  /\ \/ /\ report' = [market |-> "UNKNOWN", sessions |-> {}, next |-> -1, ticked |-> FALSE, unread |-> FALSE]
        /\ UNCHANGED cache
     \/ \E api \in ApiAnswers, bridge \in BridgeAnswers, history \in HistoryAnswers, unread \in BOOLEAN :
          LET fresh    == sessionsFrom(api, bridge, history, {})
              sessions == sessionsFrom(api, bridge, history, IF unread THEN {} ELSE cache)
          IN /\ report' = [market |-> marketStatus(sessions, trade_enabled, clock[1], clock[2]),
                           sessions |-> sessions, next |-> nextTradeSession(sessions, clock[1], clock[2]),
                           ticked |-> TRUE, unread |-> unread]
             /\ cache' \in saveCached(fresh)

\* The caller has the answer.
Answered ==
  /\ report # NoReport /\ report' = NoReport
  /\ UNCHANGED <<clock, trade_enabled, cache>>

\* A save of another symbol that could not parse the file, or had read it before this
\* symbol was saved, writes it without this symbol; one that breaks off, as when the
\* process dies, leaves no file that can be parsed.
CacheLost ==
  /\ cache' = {}
  /\ UNCHANGED <<clock, trade_enabled, report>>

TimePasses ==
  /\ clock' = IF clock[2] + 1 < DayLength THEN <<clock[1], clock[2] + 1>> ELSE <<(clock[1] + 1) % WeekDays, 0>>
  /\ report' = NoReport
  /\ UNCHANGED <<trade_enabled, cache>>

\* trade_mode, trade_allowed or visible of the symbol changes.
TradeModeChanges ==
  /\ trade_enabled' = ~trade_enabled /\ report' = NoReport
  /\ UNCHANGED <<clock, cache>>

SessionNext == Evaluate \/ Answered \/ CacheLost \/ TimePasses \/ TradeModeChanges

SessionSpec == SessionInit /\ [][SessionNext]_sessionVars

-----------------------------------------------------------------------------

Week == WeekDays * DayLength
startOf(w) == w.day * DayLength + w.from
lengthOf(w) == IF w.from <= w.to THEN w.to - w.from ELSE w.to + DayLength - w.from
instant == clock[1] * DayLength + clock[2]

\* What the broker's server shows.
serverInstant == (instant + ServerAhead) % Week

covers(w, t) == (t - startOf(w)) % Week < lengthOf(w)

(***************************************************************************)
(* The answer is the one that was right ServerAhead slots ago by the       *)
(* broker's own clock, and right now where the clocks agree: on the circle *)
(* of the week, OPEN says that a trade window of the schedule in hand      *)
(* covered that moment and only a disabled symbol hides it, QUOTE_ONLY     *)
(* that only a quote window did, the next opening is the first start after *)
(* it; and no schedule is UNKNOWN while the cache file has one that could  *)
(* be read (_session_match 255-275, _next_trade_session 278-313, _sessions *)
(* 316-332).                                                               *)
(***************************************************************************)
StatusIsRight ==
  report # NoReport /\ report.ticked =>
    LET trade == {w \in report.sessions : w.kind = "trade"}
        then  == (serverInstant - ServerAhead) % Week
    IN /\ trade_enabled => (report.market = "OPEN" <=> \E w \in trade : covers(w, then))
       /\ report.market = "QUOTE_ONLY" =>
            /\ \E w \in report.sessions \ trade : covers(w, then)
            /\ ~\E w \in trade : covers(w, then)
       /\ report.next = IF trade = {} THEN -1 ELSE 1 + Min({(startOf(w) - then - 1) % Week : w \in trade})
       /\ report.market = "UNKNOWN" => cache = {} \/ report.unread

=============================================================================
