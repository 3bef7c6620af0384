SPECIFICATION Spec
CONSTANTS
  p1 = p1
  w1 = w1
  r1 = r1
  r2 = r2
  EURUSD = EURUSD
  NoPlan = NoPlan
  Plans = {p1}
  Workers = {w1}
  Recs = {r1, r2}
  SymbolOf <- MCSameSymbol
  MaxClaims = 2
  MaxCrashes = 0
  MaxPositions = 2
  MaxTrades = 2
  Faults = {"read", "db", "slow", "fastclose", "history", "dealonly"}
SYMMETRY MCSymmetry
INVARIANTS
  ExecutedHasOutcome
  NoFalseFailure
PROPERTY TerminalStays
