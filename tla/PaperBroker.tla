---------------------------- MODULE PaperBroker ----------------------------
(***************************************************************************)
(* The local paper broker, broker/paper_broker.py: one value b, held in    *)
(* the memory of the Python process behind a lock, and one operator per    *)
(* call.  A call that may end in several ways is the set of its outcomes.  *)
(*                                                                         *)
(* Orders are named by what keeps them apart: an entry or a time exit by   *)
(* its idempotency key, a bracket by its entry.  The two legs of a bracket *)
(* fill at most once between them, so a bracket has one state.             *)
(***************************************************************************)
EXTENDS Integers, FiniteSets

CONSTANTS
  Proposals,   \* trade_proposals ids
  Symbols,
  Lot,         \* the quantity of an entry
  Quirks       \* what a broker without a random seed adds: subset of QuirkKinds

QuirkKinds == {"partial", "reject"}

ASSUME LotAssumption       == Lot \in Nat \ {0}
ASSUME ProposalsAssumption == IsFiniteSet(Proposals)
ASSUME QuirksAssumption    == Quirks \subseteq QuirkKinds

TimeReasons == {"MAX_HOLDING_TIME", "END_OF_DAY"}
Orders      == Proposals \X ({"entry"} \cup TimeReasons)
OrderStatus == {"FILLED", "PARTIALLY_FILLED", "REJECTED", "SUBMITTED"}
LegStatus   == {"none", "PENDING", "FILLED", "CANCELLED"}

entryOf(p)     == <<p, "entry">>
exitOf(p, why) == <<p, why>>

\* An entry buys one Lot; a SELL may ask for what the entries of all
\* proposals bought.
MaxQuantity == Lot * Cardinality(Proposals)

Unknown    == [status |-> "none", quantity |-> 0]
ResultType == [status: OrderStatus, quantity: 0 .. MaxQuantity] \cup {Unknown}
legsNone   == [status |-> "none", symbol |-> CHOOSE s \in Symbols : TRUE, quantity |-> 0]
LegsType   == [status: LegStatus, symbol: Symbols, quantity: 0 .. Lot]

\* What a process that has just started knows.
emptyBroker ==
  [position |-> [s \in Symbols |-> 0],
   order    |-> [o \in Orders |-> Unknown],
   legs     |-> [p \in Proposals |-> legsNone]]

request(p, o, s, side, quantity, type, bracket) ==
  [proposal |-> p, order |-> o, symbol |-> s, side |-> side,
   quantity |-> quantity, type |-> type, bracket |-> bracket]

signed(side, quantity) == IF side = "BUY" THEN quantity ELSE -quantity

applyFill(b, s, side, quantity) ==
  [b EXCEPT !.position[s] = @ + signed(side, quantity)]

store(b, o, status, quantity) ==
  [b EXCEPT !.order[o] = [status |-> status, quantity |-> quantity]]

\* Whole units: half of one share is not filled in part.
fillQuantities(q) ==
  {q} \cup (IF "partial" \in Quirks /\ q \div 2 > 0 THEN {q \div 2} ELSE {})

\* _check_funds(): a SELL needs the position.  Cash that lacks for a BUY is
\* among the rejections of "reject".
checkFunds(b, r, q) == r.side = "BUY" \/ b.position[r.symbol] >= q

registerBracket(b, r) ==
  IF r.bracket /\ r.side = "BUY"
  THEN [b EXCEPT !.legs[r.proposal] = [status |-> "PENDING", symbol |-> r.symbol, quantity |-> r.quantity]]
  ELSE b

fillMarket(b, r, q) ==
  LET status == IF q < r.quantity THEN "PARTIALLY_FILLED" ELSE "FILLED"
      filled == applyFill(store(b, r.order, status, q), r.symbol, r.side, q)
  IN IF q = r.quantity THEN registerBracket(filled, r) ELSE filled

executeMarket(b, r) ==
  LET drawn == fillQuantities(r.quantity)
  IN {fillMarket(b, r, q) : q \in {n \in drawn : checkFunds(b, r, n)}}
     \cup {store(b, r.order, "REJECTED", 0) :
            q \in {n \in drawn : "reject" \in Quirks \/ ~checkFunds(b, r, n)}}

\* A limit that the price has not reached waits; otherwise it fills whole.
handleLimit(b, r) ==
  {store(b, r.order, "SUBMITTED", 0)}
  \cup (IF checkFunds(b, r, r.quantity)
        THEN {applyFill(store(b, r.order, "FILLED", r.quantity), r.symbol, r.side, r.quantity)}
        ELSE {})
  \cup (IF "reject" \in Quirks \/ ~checkFunds(b, r, r.quantity)
        THEN {store(b, r.order, "REJECTED", 0)} ELSE {})

\* mutant: no look at the key
submitOrderAgain(b, r) ==
  IF r.type = "MARKET" THEN executeMarket(b, r) ELSE handleLimit(b, r)

\* submit_order(): a key that is known gets its first answer again.
submitOrder(b, r) ==
  IF b.order[r.order] # Unknown THEN {b}
  ELSE IF r.type = "MARKET" THEN executeMarket(b, r) ELSE handleLimit(b, r)

\* mutant: the other leg stays open
fillOneLeg(b, p) == applyFill(b, b.legs[p].symbol, "SELL", b.legs[p].quantity)

\* _fill_bracket_leg(): without asking whether the position is still there.
fillBracketLeg(b, p) ==
  applyFill([b EXCEPT !.legs[p].status = "FILLED"], b.legs[p].symbol, "SELL", b.legs[p].quantity)

\* get_order() of a leg: the bracket is evaluated against the price, whatever
\* that is now.
getOrder(b, p) ==
  {b} \cup (IF b.legs[p].status = "PENDING" THEN {fillBracketLeg(b, p)} ELSE {})

\* mutant: the order is answered for and nothing is cancelled
cancelNothing(b, p) == b

\* cancel_order() of a leg cancels the bracket, unless it is settled.
cancelOrder(b, p) ==
  IF b.legs[p].status = "PENDING" THEN [b EXCEPT !.legs[p].status = "CANCELLED"] ELSE b

BrokerType(b) ==
  /\ DOMAIN b = {"position", "order", "legs"}
  /\ DOMAIN b.position = Symbols /\ \A s \in Symbols : b.position[s] \in Int
  /\ b.order \in [Orders -> ResultType]
  /\ b.legs  \in [Proposals -> LegsType]
=============================================================================
