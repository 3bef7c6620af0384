SPECIFICATION Spec
CONSTANTS
  p1 = p1
  w1 = w1
  w2 = w2
  r1 = r1
  r2 = r2
  EURUSD = EURUSD
  NoPlan = NoPlan
  Plans = {p1}
  Workers = {w1, w2}
  Recs = {r1, r2}
  SymbolOf <- MCSameSymbol
  MaxClaims = 3
  MaxCrashes = 0
  MaxPositions = 1
  MaxTrades = 2
  Faults = {}
INVARIANT AtMostOneOrder
