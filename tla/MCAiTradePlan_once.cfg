SPECIFICATION Spec
CONSTANTS
  p1 = p1
  m1 = m1
  f1 = f1
  f2 = f2
  r1 = r1
  EURUSD = EURUSD
  NoPlan = NoPlan
  Plans = {p1, m1}
  Market = {m1}
  Flows = {f1, f2}
  Passes = {r1}
  SymbolOf <- MCSameSymbol
  Attempts = 1
  OneActive = TRUE
  MaxClaims = 2
  MaxCrashes = 0
  Faults = {}
SYMMETRY MCSymmetry
INVARIANT OneOrderPerSymbol
INVARIANT LiveIsWatched
PROPERTY TradesOnce
