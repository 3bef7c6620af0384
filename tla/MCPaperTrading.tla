--------------------------- MODULE MCPaperTrading ---------------------------
(* PaperTrading on small instances.                                          *)
EXTENDS PaperTrading, TLC

CONSTANTS p1, p2, AAPL

MCSameSymbol == [p \in Proposals |-> AAPL]

market(n, side) == [phase |-> n, side |-> side, type |-> "MARKET"]
pair(k, l)      == [p \in Proposals |-> IF p = p1 THEN k ELSE l]

\* Two entries; an entry and the SELL that follows it.
MCPairs ==
  {pair(market(22, "BUY"), market(27, "BUY")),
   pair(market(27, "BUY"), [market(22, "SELL") EXCEPT !.type = "LIMIT"])}

\* A bracket beside a time exit.
MCExits == {pair(market(22, "BUY"), market(25, "BUY"))}

Interchangeable == Permutations(Flows)
=============================================================================
