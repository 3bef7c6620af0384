SPECIFICATION Spec
CONSTANTS
  p1 = p1
  f1 = f1
  r1 = r1
  EURUSD = EURUSD
  NoPlan = NoPlan
  Plans = {p1}
  Market = {}
  Flows = {f1}
  Passes = {r1}
  SymbolOf <- ClaimsSameSymbol
  Attempts = 1
  OneActive = TRUE
  MaxClaims = 2
  MaxCrashes = 0
  Faults = {"reject"}
INVARIANT CancelledIsGone
