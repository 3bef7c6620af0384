SPECIFICATION Spec
CONSTANTS
  p1 = p1
  w1 = w1
  w2 = w2
  r1 = r1
  EURUSD = EURUSD
  NoPlan = NoPlan
  Plans = {p1}
  Workers = {w1, w2}
  Recs = {r1}
  SymbolOf <- MCSameSymbol
  MaxClaims = 4
  MaxCrashes = 2
  MaxPositions = 2
  MaxTrades = 2
  Faults = {}
SYMMETRY MCSymmetry
PROPERTY TradesOnce
